---- MODULE Spec2Model ----
(***************************************************************************)
(* State-tracking engine of the Rendering library: the scoped stacks of    *)
(* RenderingContext, the target/active pipeline snapshots and applyChanges.*)
(* Every operation of the context is a function from the context's data    *)
(* (InternalData) to the data after the call, so that an operation that    *)
(* calls others (pushAndSetBlending, clearScreenRect, drawArrays) is the   *)
(* composition the source writes.                                          *)
(***************************************************************************)
EXTENDS Integers, Sequences, FiniteSets, TLC

\* ------------------------------------------------------------------ bounds
\* Number of API calls explored from the constructed context: over all calls
\* (MaxCalls), over the setters and the device calls (MaxApplyCalls) and over the
\* calls on one category (MaxFocusCalls).
MaxCalls == 2
MaxApplyCalls == 3
MaxFocusCalls == 5
MaxFaultCalls == 3

\* Calls of a run that only draws: enough to fill one object-data buffer
\* (MAX_OBJECTDATA records) and to start the next.
MaxDrawCalls == 514

\* Calls of a run that works on the data of the mesh.
MaxMeshCalls == 6

\* A mesh has 0..MaxIndices indices.
MaxIndices == 1

\* Calls of a run that works on the vertex record alone.
MaxRecordCalls == 5

\* Calls of a run that works on the bound images.
MaxImageCalls == 4

\* Calls of a run that works on the textures.
MaxTextureCalls == 3

\* Calls of a run that works on the lights only.
MaxLightCalls == 4
\* Parameter values of a category are 0..MaxVal (0: the default-constructed value;
\* for shaders, FBOs and textures 0 is the null pointer).
MaxVal == 1
\* Texture units 0..MaxTextureUnit (MAX_TEXTURES - 1, scaled down).
MaxTextureUnit == 1
\* Image units 0..MaxImageUnit (MAX_BOUND_IMAGES - 1, scaled down).
MaxImageUnit == 1

\* Texture objects 1..MaxTexture (0 is the null texture).
MaxTexture == 2

\* Vertex attribute locations 0..MaxLocation (PipelineState::MAX_VERTEXATTRIBS - 1,
\* scaled down).
MaxLocation == 1

\* Light descriptors 1..MaxLight; light ids 0..MaxLightId (0..254 in the source),
\* MaxLightId + 1 being the id that reports a failed registration (255); the
\* active light set holds MaxEnabledLights ids (MAX_ENABLED_LIGHTS, scaled down).
MaxLight == 2
MaxLightId == 1
MaxEnabledLights == 2

\* A record whose bounding box is computed has 0..MaxBoxVertices vertices, its
\* position attribute 0..MaxNumValues values, each in MinCoord..MaxCoord.
MaxBoxVertices == 3
MaxNumValues == 3
MaxCoord == 1
MinCoord == 0 - MaxCoord
\* Calls of a run that computes the bounding box.
MaxBoxCalls == 1

\* A mesh has 0..MaxVertices vertices.
MaxVertices == 1
\* Unsigned 32-bit arithmetic wraps at 2^32; the model wraps at UIntModulus.
UIntModulus == 8

Vals == 0..MaxVal
Locations == 0..MaxLocation
Textures == 1..MaxTexture
TextureUnits == 0..MaxTextureUnit
ImageUnits == 0..MaxImageUnit
Lights == 1..MaxLight
LightNumbers == 0..(MaxLightId + 1)

\* ------------------------------------------------------------- categories
\* Categories whose push/set/pop have the same code shape over targetPipelineState.
PlainCats ==
    {"blending", "colorBuffer", "cullFace", "depthBuffer", "line",
     "polygonMode", "polygonOffset", "scissor", "stencil", "fbo"}
\* The vertex-format table, the vertex-buffer binding and the index-buffer binding.
BindingCats == {"vertexFormat", "vertexBinding", "elementBinding"}
\* Every category held in a PipelineState as one value.
StateCats == PlainCats \cup {"shader", "viewport"} \cup BindingCats
\* Categories with one stack each.
ScalarCats ==
    PlainCats \cup {"shader", "viewport", "point", "modelToCamera", "cameraToClipping",
                    "material", "feedback"}

Cat(c, u) == [c |-> c, u |-> u]
AllCats ==
    {Cat(c, 0) : c \in ScalarCats}
        \cup {Cat("texture", u) : u \in TextureUnits}
        \cup {Cat("image", u) : u \in ImageUnits}

\* One entry of the per-call journal: a device command, a warning, a mutation
\* of the target snapshot or the end of an applyChanges.
Ev(k, c, u) == [k |-> k, c |-> c, u |-> u]

\* The context after x, handed to the step F that follows it.
Then(x, F(_)) == F(x)

Top(st) == st[Len(st)]
Pop(st) == SubSeq(st, 1, Len(st) - 1)

VARIABLES
    rc,      \* RenderingContext::InternalData, with the journal of the current call
    calls,   \* number of API calls made
    last,    \* the call just made, its argument and what held right before it
    shadow,  \* per category: for each push not yet popped, the value and depth before it
    run      \* the run that is explored: its number of calls, and whether it keeps to a category

vars == <<rc, calls, last, shadow, run>>

\* ------------------------------------------------------------ the context
\* A default-constructed PipelineState.
PipelineState0 ==
    [state |-> [c \in StateCats |->
                   IF c = "vertexFormat" THEN [l \in Locations |-> "none"] ELSE 0],
     textures |-> [u \in TextureUnits |-> 0]]

Ok(s) == s.thrown = "none"

\* The fault of a call: the nested operation, if any, that raises an error in it.
NoFault == Ev("none", "", 0)

\* What the driver answers when asked for a capability in a call.
NoDriver == [imageBinding |-> "yes", transformFeedback |-> "yes", mipmapCreation |-> "yes"]

\* A statement after one that threw is not executed.
Warn(s, what) ==
    Then(s, LAMBDA x : IF Ok(x) THEN [x EXCEPT !.journal = Append(@, Ev("warn", what, 0))]
                       ELSE x)

Gl(s, what, u) ==
    Then(s, LAMBDA x : IF Ok(x) THEN [x EXCEPT !.journal = Append(@, Ev("gl", what, u))]
                       ELSE x)

Throw(s, what) == Then(s, LAMBDA x : IF Ok(x) THEN [x EXCEPT !.thrown = what] ELSE x)

\* PipelineState::set*Parameters / setFBO / setShader / setViewport on the target.
SetTargetState(s, c, p) ==
    Then(s, LAMBDA x :
                IF Ok(x)
                THEN [x EXCEPT !.targetPipelineState.state[c] = p,
                               !.journal = Append(@, Ev("target", c, 0))]
                ELSE x)

\* ---- blending, color buffer, cull face, depth buffer, line, polygon mode,
\* ---- polygon offset, scissor, stencil, FBO: the same four functions each.
getState(s, c) == s.targetPipelineState.state[c]

\* A setter that writes through to the active snapshot.
setStateWriteThrough(s, c, p) ==
    [SetTargetState(s, c, p) EXCEPT !.activePipelineState.state[c] = p]

setState(s, c, p) == SetTargetState(s, c, p)

pushState(s, c) == [s EXCEPT !.stacks[Cat(c, 0)] = Append(@, getState(s, c))]

pushAndSetState(s, c, p) == setState(pushState(s, c), c, p)

\* A pop that drops the entry without restoring it.
popStateNoRestore(s, c) ==
    IF s.stacks[Cat(c, 0)] = <<>>
    THEN Warn(s, "emptyStack")
    ELSE [s EXCEPT !.stacks[Cat(c, 0)] = Pop(@)]

popState(s, c) ==
    IF s.stacks[Cat(c, 0)] = <<>>
    THEN Warn(s, "emptyStack")
    ELSE LET s1 == setState(s, c, Top(s.stacks[Cat(c, 0)]))
         IN  [s1 EXCEPT !.stacks[Cat(c, 0)] = Pop(@)]

\* ---- shader
getActiveShader(s) == s.targetPipelineState.state["shader"]

setShader(s, sh) == SetTargetState(s, "shader", sh)

pushShader(s) == [s EXCEPT !.stacks[Cat("shader", 0)] = Append(@, getActiveShader(s))]

pushAndSetShader(s, sh) == setShader(pushShader(s), sh)

\* The source restores the top of the stack and leaves it on the stack.
popShader(s) ==
    IF s.stacks[Cat("shader", 0)] = <<>>
    THEN Warn(s, "emptyStack")
    ELSE setShader(s, Top(s.stacks[Cat("shader", 0)]))

\* ---- viewport
getViewport(s) == s.targetPipelineState.state["viewport"]

\* A viewport setter that also sets the scissor rectangle to the viewport.
setViewportAndScissor(s, vp) ==
    [SetTargetState(SetTargetState(s, "scissor", vp), "viewport", vp)
        EXCEPT !.activeFrameData.viewport = vp]

setViewport(s, vp) ==
    [SetTargetState(s, "viewport", vp) EXCEPT !.activeFrameData.viewport = vp]

pushViewport(s) == [s EXCEPT !.stacks[Cat("viewport", 0)] = Append(@, getViewport(s))]

pushAndSetViewport(s, vp) == setViewport(pushViewport(s), vp)

popViewport(s) ==
    IF s.stacks[Cat("viewport", 0)] = <<>>
    THEN Warn(s, "emptyStack")
    ELSE LET s1 == setViewport(s, Top(s.stacks[Cat("viewport", 0)]))
         IN  [s1 EXCEPT !.stacks[Cat("viewport", 0)] = Pop(@)]

\* ---- point parameters (kept in the object record, not in the snapshot)
getPointParameters(s) == s.activeObjectData.pointSize

setPointParameters(s, p) == [s EXCEPT !.activeObjectData.pointSize = p]

pushPointParameters(s) ==
    [s EXCEPT !.stacks[Cat("point", 0)] = Append(@, getPointParameters(s))]

pushAndSetPointParameters(s, p) == setPointParameters(pushPointParameters(s), p)

popPointParameters(s) ==
    IF s.stacks[Cat("point", 0)] = <<>>
    THEN Warn(s, "emptyStack")
    ELSE LET s1 == setPointParameters(s, Top(s.stacks[Cat("point", 0)]))
         IN  [s1 EXCEPT !.stacks[Cat("point", 0)] = Pop(@)]

\* ---- matrices. A matrix is a value of Vals, 0 the identity; the inverse of
\* ---- m is the distinct value -m (the identity is its own inverse).
Inverse(m) == 0 - m

Mult(a, b) == (a + b) % (MaxVal + 1)

getMatrix_cameraToClipping(s) == s.activeFrameData.matrix_cameraToClipping

setMatrix_cameraToClipping(s, m) ==
    [s EXCEPT !.activeFrameData.matrix_cameraToClipping = m,
              !.activeFrameData.matrix_clippingToCamera = Inverse(m)]

pushMatrix_cameraToClipping(s) ==
    [s EXCEPT !.stacks[Cat("cameraToClipping", 0)] =
                  Append(@, s.activeFrameData.matrix_cameraToClipping)]

pushAndSetMatrix_cameraToClipping(s, m) ==
    setMatrix_cameraToClipping(pushMatrix_cameraToClipping(s), m)

\* The source restores matrix_cameraToClipping only.
popMatrix_cameraToClipping(s) ==
    IF s.stacks[Cat("cameraToClipping", 0)] = <<>>
    THEN Warn(s, "emptyStack")
    ELSE [s EXCEPT !.activeFrameData.matrix_cameraToClipping =
                       Top(s.stacks[Cat("cameraToClipping", 0)]),
                   !.stacks[Cat("cameraToClipping", 0)] = Pop(@)]

setMatrix_cameraToWorld(s, m) ==
    [s EXCEPT !.activeFrameData.matrix_cameraToWorld = m,
              !.activeFrameData.matrix_worldToCamera = Inverse(m)]

getMatrix_modelToCamera(s) == s.activeObjectData.matrix_modelToCamera

setMatrix_modelToCamera(s, m) == [s EXCEPT !.activeObjectData.matrix_modelToCamera = m]

resetMatrix(s) == [s EXCEPT !.activeObjectData.matrix_modelToCamera = 0]

multMatrix_modelToCamera(s, m) ==
    [s EXCEPT !.activeObjectData.matrix_modelToCamera = Mult(@, m)]

pushMatrix_modelToCamera(s) ==
    [s EXCEPT !.stacks[Cat("modelToCamera", 0)] =
                  Append(@, s.activeObjectData.matrix_modelToCamera)]

pushAndSetMatrix_modelToCamera(s, m) ==
    setMatrix_modelToCamera(pushMatrix_modelToCamera(s), m)

popMatrix_modelToCamera(s) ==
    IF s.stacks[Cat("modelToCamera", 0)] = <<>>
    THEN Warn(s, "emptyStack")
    ELSE [s EXCEPT !.activeObjectData.matrix_modelToCamera =
                       Top(s.stacks[Cat("modelToCamera", 0)]),
                   !.stacks[Cat("modelToCamera", 0)] = Pop(@)]

\* ---- material
\* MaterialData(const MaterialParameters &): enabled is true.
MaterialData(mat) == [mat |-> mat, enabled |-> TRUE]

getMaterial(s) == s.activeMaterial.mat

setMaterial(s, mat) == [s EXCEPT !.activeMaterial = MaterialData(mat)]

pushMaterial(s) == [s EXCEPT !.stacks[Cat("material", 0)] = Append(@, s.activeMaterial)]

pushAndSetMaterial(s, mat) == setMaterial(pushMaterial(s), mat)

\* A pop that disables the material when called on an empty stack.
popMaterialDisableOnEmpty(s) ==
    IF s.stacks[Cat("material", 0)] = <<>>
    THEN [Warn(s, "emptyStack") EXCEPT !.activeMaterial.enabled = FALSE]
    ELSE IF Len(s.stacks[Cat("material", 0)]) = 1
         THEN [s EXCEPT !.stacks[Cat("material", 0)] = <<>>,
                        !.activeMaterial.enabled = FALSE]
         ELSE [s EXCEPT !.stacks[Cat("material", 0)] = Pop(@),
                        !.activeMaterial = Top(Pop(s.stacks[Cat("material", 0)]))]

\* The source pops first and then takes the new top, or disables the material
\* when the stack became empty.
popMaterial(s) ==
    IF s.stacks[Cat("material", 0)] = <<>>
    THEN Warn(s, "emptyStack")
    ELSE LET s1 == [s EXCEPT !.stacks[Cat("material", 0)] = Pop(@)]
         IN  IF s1.stacks[Cat("material", 0)] = <<>>
             THEN [s1 EXCEPT !.activeMaterial.enabled = FALSE]
             ELSE [s1 EXCEPT !.activeMaterial = Top(s1.stacks[Cat("material", 0)])]

\* ---- textures
\* Texture::format.glTextureType: odd texture objects are 2D textures, even
\* ones 3D textures (which _uploadGLTexture and downloadGLTexture do not support).
TextureType(t) == IF t % 2 = 1 THEN "GL_TEXTURE_2D" ELSE "GL_TEXTURE_3D"

getTexture(s, unit) == s.targetPipelineState.textures[unit]

pushTexture(s, unit) ==
    [s EXCEPT !.stacks[Cat("texture", unit)] = Append(@, getTexture(s, unit))]

RECURSIVE setTexture(_, _, _)
RECURSIVE popTexture(_, _)
RECURSIVE createGLID(_, _)
RECURSIVE uploadGLTexture(_, _)
RECURSIVE prepareForBinding(_, _)

pushAndSetTexture(s, unit, t) == setTexture(pushTexture(s, unit), unit, t)

\* Texture::_createGLID: borrows texture unit 0 to set the parameters.
createGLID(s, t) ==
    Then(Gl(Gl(IF s.textures[t].glId
               THEN [Gl(Warn(s, "recreatingTexture"), "glDeleteTextures", 0)
                        EXCEPT !.textures[t].glId = FALSE]
               ELSE s,
               "glPixelStorei", 0), "glGenTextures", 0),
         LAMBDA s1 :
             IF s1.fault = Ev("glGenTextures", "", 0)
             THEN Throw(s1, "runtime_error")
             ELSE Gl(popTexture(
                         Gl(Gl(Gl(pushAndSetTexture([s1 EXCEPT !.textures[t].glId = TRUE], 0, 0),
                                  "glActiveTexture", 0), "glBindTexture", 0),
                            "glTexParameteri", 0),
                         0),
                     "glActiveTexture", 0))

\* Texture::_uploadGLTexture: borrows texture unit 0 for the upload.
uploadGLTexture(s, t) ==
    Then(IF ~s.textures[t].glId THEN createGLID(s, t) ELSE s,
         LAMBDA s1 :
             IF ~Ok(s1) THEN s1
             ELSE Then(Gl(Gl(pushAndSetTexture(
                                 [s1 EXCEPT !.textures[t].dataHasChanged = FALSE], 0, 0),
                             "glActiveTexture", 0), "glBindTexture", 0),
                       LAMBDA s3 :
                           IF TextureType(t) = "GL_TEXTURE_2D"
                           THEN Gl(popTexture(Gl(s3, "glTexImage2D", 0), 0),
                                   "glActiveTexture", 0)
                           ELSE Throw(Gl(popTexture(s3, 0), "glActiveTexture", 0),
                                      "runtime_error")))

\* Texture::_prepareForBinding (declared in Texture.h): uploads the texture
\* when it has no device handle or its data has changed.
prepareForBinding(s, t) ==
    IF ~s.textures[t].glId \/ s.textures[t].dataHasChanged
    THEN uploadGLTexture(s, t)
    ELSE s

setTexture(s, unit, t) ==
    Then(IF t # getTexture(s, unit)
         THEN Then(IF t # 0 THEN prepareForBinding(s, t) ELSE s,
                   LAMBDA sp :
                       IF ~Ok(sp) THEN sp
                       ELSE [sp EXCEPT !.targetPipelineState.textures[unit] = t,
                                       !.journal = Append(@, Ev("target", "texture", unit))])
         ELSE s,
         LAMBDA s1 :
             IF ~Ok(s1) THEN s1
             ELSE [s1 EXCEPT !.enabledTextures[unit] = IF t # 0 THEN "true" ELSE "false"])

popTexture(s, unit) ==
    IF s.stacks[Cat("texture", unit)] = <<>>
    THEN Warn(s, "emptyStack")
    ELSE Then(setTexture(s, unit, Top(s.stacks[Cat("texture", unit)])),
              LAMBDA s1 :
                  IF ~Ok(s1) THEN s1 ELSE [s1 EXCEPT !.stacks[Cat("texture", unit)] = Pop(@)])

\* Texture::dataChanged (declared in Texture.h): the local data was modified.
dataChanged(s, t) == [s EXCEPT !.textures[t].dataHasChanged = TRUE]

\* Texture::createMipmaps: uploads the texture when needed and borrows texture
\* unit 0 to generate the mipmaps; the extension is asked for on the first call.
createMipmaps(s, t) ==
    Then(IF ~s.textures[t].glId \/ s.textures[t].dataHasChanged
         THEN uploadGLTexture(s, t)
         ELSE s,
         LAMBDA s1 :
             IF ~Ok(s1) THEN s1
             ELSE Then(IF s1.env.mipmapCreation = "unqueried"
                       THEN [s1 EXCEPT !.env.mipmapCreation = s1.driver.mipmapCreation]
                       ELSE s1,
                       LAMBDA s2 :
                           IF s2.env.mipmapCreation = "yes"
                           THEN Gl(popTexture(
                                       Gl(Gl(Gl(Gl(pushAndSetTexture(s2, 0, 0),
                                                   "glActiveTexture", 0), "glBindTexture", 0),
                                             "glGenerateMipmap", 0), "glTexParameteri", 0),
                                       0),
                                   "glActiveTexture", 0)
                           ELSE s2))

\* Texture::downloadGLTexture: borrows texture unit 0, with the texture itself
\* bound to it, to read the image back.
downloadGLTexture(s, t) ==
    IF ~s.textures[t].glId
    THEN Warn(s, "noGlTexture")
    ELSE Then(pushAndSetTexture([s EXCEPT !.textures[t].dataHasChanged = FALSE], 0, t),
              LAMBDA s1 :
                  IF ~Ok(s1) THEN s1
                  ELSE IF TextureType(t) = "GL_TEXTURE_2D"
                       THEN popTexture(Gl(s1, "glGetTexImage", 0), 0)
                       ELSE Throw(s1, "runtime_error"))

\* ---- bound images. An ImageBindParameters value is the texture it names
\* ---- (0: no texture, which unbinds the unit).
\* isImageBindingSupported: a static that asks the driver on the first call.
isImageBindingSupported(s) ==
    IF s.env.imageBinding = "unqueried"
    THEN [s EXCEPT !.env.imageBinding = s.driver.imageBinding]
    ELSE s

assertCorrectImageUnit(s, unit) ==
    IF unit > MaxImageUnit THEN Throw(s, "runtime_error") ELSE s

getBoundImage(s, unit) == s.boundImages[unit]

\* RenderingContext::getBoundImage as a call: the assertion, then the value.
getBoundImageCall(s, unit) ==
    Then(assertCorrectImageUnit(s, unit),
         LAMBDA s1 : IF ~Ok(s1) THEN s1 ELSE [s1 EXCEPT !.ret = getBoundImage(s1, unit)])

pushBoundImage(s, unit) ==
    Then(assertCorrectImageUnit(s, unit),
         LAMBDA s1 :
             IF ~Ok(s1) THEN s1
             ELSE [s1 EXCEPT !.stacks[Cat("image", unit)] = Append(@, s1.boundImages[unit])])

\* setBoundImage with the assertion at its end.
setBoundImageAssertLast(s, unit, iParam) ==
    Then(isImageBindingSupported([s EXCEPT !.boundImages[unit] = iParam]),
         LAMBDA s3 :
             Then(IF s3.env.imageBinding = "no"
                  THEN Warn(s3, "imageBindingNotSupported")
                  ELSE IF iParam = 0
                       THEN Gl(s3, "glBindImageTexture", unit)
                       ELSE Then(prepareForBinding(s3, iParam),
                                 LAMBDA s4 :
                                     IF ~Ok(s4) THEN s4 ELSE Gl(s4, "glBindImageTexture", unit)),
                  LAMBDA s5 : assertCorrectImageUnit(s5, unit)))

\* The source stores the parameters and then binds the image at once.
setBoundImage(s, unit, iParam) ==
    Then(assertCorrectImageUnit(s, unit),
    LAMBDA s1 :
        IF ~Ok(s1) THEN s1
        ELSE Then(isImageBindingSupported([s1 EXCEPT !.boundImages[unit] = iParam]),
             LAMBDA s3 :
                 IF s3.env.imageBinding = "no"
                 THEN Warn(s3, "imageBindingNotSupported")
                 ELSE IF iParam = 0
                      THEN Gl(s3, "glBindImageTexture", unit)
                      ELSE Then(prepareForBinding(s3, iParam),
                           LAMBDA s4 :
                               IF ~Ok(s4) THEN s4 ELSE Gl(s4, "glBindImageTexture", unit))))

pushAndSetBoundImage(s, unit, iParam) ==
    Then(pushBoundImage(s, unit),
         LAMBDA s1 : IF ~Ok(s1) THEN s1 ELSE setBoundImage(s1, unit, iParam))

popBoundImage(s, unit) ==
    Then(assertCorrectImageUnit(s, unit),
    LAMBDA s1 :
        IF ~Ok(s1) THEN s1
        ELSE IF s1.stacks[Cat("image", unit)] = <<>>
             THEN Warn(s1, "emptyStack")
             ELSE Then(setBoundImage(s1, unit, Top(s1.stacks[Cat("image", unit)])),
                  LAMBDA s2 :
                      IF ~Ok(s2) THEN s2
                      ELSE [s2 EXCEPT !.stacks[Cat("image", unit)] = Pop(@)]))

\* ------------------------------------------------------------ applyChanges
\* The order in which PipelineState::apply issues the state changes: buffer
\* bindings, fixed-function categories, viewport and scissor, shader, textures.
ApplyOrder ==
    << Ev("state", "vertexFormat", 0), Ev("state", "vertexBinding", 0),
       Ev("state", "elementBinding", 0), Ev("state", "blending", 0),
       Ev("state", "colorBuffer", 0), Ev("state", "cullFace", 0),
       Ev("state", "depthBuffer", 0), Ev("state", "line", 0),
       Ev("state", "polygonMode", 0), Ev("state", "polygonOffset", 0),
       Ev("state", "stencil", 0), Ev("state", "fbo", 0),
       Ev("state", "viewport", 0), Ev("state", "scissor", 0),
       Ev("state", "shader", 0) >>
        \o [i \in 1..(MaxTextureUnit + 1) |-> Ev("state", "texture", i - 1)]

\* PipelineState::makeDiff: the categories in which the two snapshots differ,
\* or every category when forced.
makeDiff(active, target, forced) ==
    {Ev("state", c, 0) : c \in {x \in StateCats : forced \/ active.state[x] # target.state[x]}}
        \cup {Ev("state", "texture", u) :
                 u \in {x \in TextureUnits : forced \/ active.textures[x] # target.textures[x]}}

\* The position in a sequence of state changes at which the call's fault
\* strikes (past the end: it does not strike).
RECURSIVE FaultPos(_, _, _)
FaultPos(cmds, fault, i) ==
    IF i > Len(cmds) \/ cmds[i] = fault THEN i ELSE FaultPos(cmds, fault, i + 1)

\* PipelineState::apply: one device state change per category of the diff, in
\* ApplyOrder; an error raised by one of them ends the application there.
apply(s, diff) ==
    Then(SelectSeq(ApplyOrder, LAMBDA e : e \in diff),
         LAMBDA cmds :
             Then(FaultPos(cmds, s.fault, 1),
                  LAMBDA n :
                      IF n <= Len(cmds)
                      THEN Throw([s EXCEPT !.journal = @ \o SubSeq(cmds, 1, n - 1)],
                                 "exception")
                      ELSE [s EXCEPT !.journal = @ \o cmds]))

\* The names of the Parameter Cache slots (ParameterCache::isCache).
CacheNames ==
    {"FrameData", "ObjectData", "MaterialData", "LightData", "LightSetData",
     "TextureSetData"}

\* A setParameter that writes nothing.
setParameterNoWrite(s, name, index, record) ==
    IF s.fault = Ev("cache", name, 0)
    THEN Throw(s, "exception")
    ELSE s

\* ParameterCache::setParameter(name, index, record): overwrites the slot.
setParameter(s, name, index, record) ==
    IF s.fault = Ev("cache", name, 0)
    THEN Throw(s, "exception")
    ELSE [s EXCEPT !.cache[name][index] = record]

\* Shader::getInterfaceBlocks: the blocks the shader declares.
InterfaceBlocks(sh) ==
    << [name |-> "FrameData", location |-> 0],
       [name |-> "ObjectData", location |-> IF sh % 2 = 1 THEN 1 ELSE 0 - 1],
       [name |-> "LightSetData", location |-> 0 - 1],
       [name |-> "UserBlock", location |-> 2] >>

\* bindBlocks that binds every declared block.
bindBlocksNoFilter(s, sh) ==
    Then(InterfaceBlocks(sh),
         LAMBDA blocks :
             Then([i \in 1..Len(blocks) |-> Ev("bind", blocks[i].name, blocks[i].location)],
                  LAMBDA binds :
                      IF s.fault = Ev("uniforms", "", 0)
                      THEN Throw([s EXCEPT !.journal = @ \o binds], "exception")
                      ELSE [s EXCEPT !.journal = @ \o binds \o << Ev("uniforms", "", 0) >>]))

\* ParameterCache::bind for the blocks of the shader that name a slot, then
\* the global uniform sync and Shader::applyUniforms.
bindBlocks(s, sh) ==
    Then(SelectSeq(InterfaceBlocks(sh), LAMBDA b : b.location >= 0 /\ b.name \in CacheNames),
         LAMBDA blocks :
             Then([i \in 1..Len(blocks) |-> Ev("bind", blocks[i].name, blocks[i].location)],
                  LAMBDA binds :
                      IF s.fault = Ev("uniforms", "", 0)
                      THEN Throw([s EXCEPT !.journal = @ \o binds], "exception")
                      ELSE [s EXCEPT !.journal = @ \o binds \o << Ev("uniforms", "", 0) >>]))

\* An applyChanges that applies the difference and keeps the old active snapshot.
applyBodyNoCopy(s, forced) ==
    Then(apply(s, makeDiff(s.activePipelineState, s.targetPipelineState, forced)),
    LAMBDA s1 :
    Then(IF Ok(s1) THEN setParameter(s1, "FrameData", 0, s1.activeFrameData) ELSE s1,
    LAMBDA s2 :
    Then(IF Ok(s2) THEN setParameter(s2, "MaterialData", 0, s2.activeMaterial) ELSE s2,
    LAMBDA s3 :
    Then(IF Ok(s3) THEN setParameter(s3, "LightSetData", 0, s3.activeLightSet) ELSE s3,
    LAMBDA s4 :
    Then(IF Ok(s4) THEN setParameter(s4, "TextureSetData", 0, s4.enabledTextures) ELSE s4,
    LAMBDA s5 :
        IF Ok(s5) /\ s5.activePipelineState.state["shader"] # 0
        THEN bindBlocks(s5, s5.activePipelineState.state["shader"])
        ELSE s5)))))

\* An applyChanges that ignores its argument and always forces.
applyBodyAlwaysForced(s, forced) ==
    Then(apply([s EXCEPT !.activePipelineState = s.targetPipelineState],
               makeDiff(s.activePipelineState, s.targetPipelineState, TRUE)),
    LAMBDA s1 :
    Then(IF Ok(s1) THEN setParameter(s1, "FrameData", 0, s1.activeFrameData) ELSE s1,
    LAMBDA s2 :
    Then(IF Ok(s2) THEN setParameter(s2, "MaterialData", 0, s2.activeMaterial) ELSE s2,
    LAMBDA s3 :
    Then(IF Ok(s3) THEN setParameter(s3, "LightSetData", 0, s3.activeLightSet) ELSE s3,
    LAMBDA s4 :
    Then(IF Ok(s4) THEN setParameter(s4, "TextureSetData", 0, s4.enabledTextures) ELSE s4,
    LAMBDA s5 :
        IF Ok(s5) /\ s5.activePipelineState.state["shader"] # 0
        THEN bindBlocks(s5, s5.activePipelineState.state["shader"])
        ELSE s5)))))

\* The body of the try block of applyChanges.
applyBody(s, forced) ==
    Then(apply([s EXCEPT !.activePipelineState = s.targetPipelineState],
               makeDiff(s.activePipelineState, s.targetPipelineState, forced)),
    LAMBDA s1 :
    Then(IF Ok(s1) THEN setParameter(s1, "FrameData", 0, s1.activeFrameData) ELSE s1,
    LAMBDA s2 :
    Then(IF Ok(s2) THEN setParameter(s2, "MaterialData", 0, s2.activeMaterial) ELSE s2,
    LAMBDA s3 :
    Then(IF Ok(s3) THEN setParameter(s3, "LightSetData", 0, s3.activeLightSet) ELSE s3,
    LAMBDA s4 :
    Then(IF Ok(s4) THEN setParameter(s4, "TextureSetData", 0, s4.enabledTextures) ELSE s4,
    LAMBDA s5 :
        IF Ok(s5) /\ s5.activePipelineState.state["shader"] # 0
        THEN bindBlocks(s5, s5.activePipelineState.state["shader"])
        ELSE s5)))))

\* An applyChanges without the catch clause.
applyChangesNoCatch(s, forced) ==
    Then(applyBody(s, forced),
         LAMBDA s1 : [s1 EXCEPT !.journal = Append(@, Ev("applied", "", 0))])

\* RenderingContext::applyChanges: whatever the body throws is caught and
\* reported as a warning.
applyChanges(s, forced) ==
    Then(applyBody(s, forced),
         LAMBDA s1 :
             [(IF Ok(s1) THEN s1 ELSE Warn([s1 EXCEPT !.thrown = "none"], "applyProblem"))
                 EXCEPT !.journal = Append(@, Ev("applied", "", 0))])

\* ---- device commands that apply the changes first
flush(s) == Gl(applyChanges(s, FALSE), "glFlush", 0)

finish(s) == Gl(applyChanges(s, FALSE), "glFinish", 0)

barrier(s) == Gl(applyChanges(s, FALSE), "glMemoryBarrier", 0)

clearScreen(s) == Gl(applyChanges(s, FALSE), "glClear", 0)

clearColor(s) == Gl(applyChanges(s, FALSE), "glClear", 0)

clearDepth(s) == Gl(applyChanges(s, FALSE), "glClear", 0)

clearStencil(s) == Gl(applyChanges(s, FALSE), "glClear", 0)

clearScreenRect(s, rect) ==
    popState(Gl(applyChanges(pushAndSetState(s, "scissor", rect), FALSE), "glClear", 0),
             "scissor")

dispatchCompute(s) ==
    IF getActiveShader(s) = 0
    THEN Warn(s, "noComputeShader")
    ELSE Gl(applyChanges(s, FALSE), "glDispatchCompute", 0)

dispatchComputeIndirect(s) ==
    IF getActiveShader(s) = 0
    THEN Warn(s, "noComputeShader")
    ELSE Gl(applyChanges(s, FALSE), "glDispatchComputeIndirect", 0)

loadUniformSubroutines(s) ==
    IF getActiveShader(s) = 0
    THEN Warn(s, "noShader")
    ELSE Gl(applyChanges(s, FALSE), "glUniformSubroutinesuiv", 0)

\* ---- draw commands
MAX_OBJECTDATA == 512

\* ParameterCache::addParameter and ParameterCache::swap on the object-data slot.
addObjectData(s) == [s EXCEPT !.objectCursor = @ + 1]

swapObjectData(s) == [s EXCEPT !.objectCursor = 0, !.objectBuffer = 1 - @]

\* drawArrays swapping one record late.
drawArraysSwapLate(s) ==
    Then(applyChanges(s, FALSE),
         LAMBDA s1 :
             Then(Gl(addObjectData(s1), "glDrawArraysInstancedBaseInstance", s1.objectCursor),
                  LAMBDA s2 :
                      IF s1.objectCursor >= MAX_OBJECTDATA THEN swapObjectData(s2) ELSE s2))

drawArrays(s) ==
    Then(applyChanges(s, FALSE),
         LAMBDA s1 :
             Then(Gl(addObjectData(s1), "glDrawArraysInstancedBaseInstance", s1.objectCursor),
                  LAMBDA s2 :
                      IF s1.objectCursor >= MAX_OBJECTDATA - 1 THEN swapObjectData(s2) ELSE s2))

drawElements(s) ==
    Then(applyChanges(s, FALSE),
         LAMBDA s1 :
             Then(Gl(addObjectData(s1), "glDrawElementsInstancedBaseVertexBaseInstance",
                     s1.objectCursor),
                  LAMBDA s2 :
                      IF s1.objectCursor >= MAX_OBJECTDATA - 1 THEN swapObjectData(s2) ELSE s2))

\* ---- vertex format and buffer bindings
\* The attributes of a VertexDescription; description vd has the first vd of them.
AttributeNames == << "sg_Position", "sg_Color" >>
VertexDescriptions == 0..Len(AttributeNames)

\* Shader::getVertexAttributeLocation: shaders place the attributes differently.
getVertexAttributeLocation(sh, i) ==
    IF sh % 2 = 1 THEN Len(AttributeNames) - i ELSE (IF i = 1 THEN 0 ELSE 0 - 1)

setVertexFormat(s, vd) ==
    LET shader == getActiveShader(s)
        loc(i) == IF shader # 0 THEN getVertexAttributeLocation(shader, i) ELSE i - 1
        fmt == [l \in Locations |->
                   IF \E i \in 1..vd : loc(i) = l
                   THEN AttributeNames[CHOOSE i \in 1..vd : loc(i) = l]
                   ELSE "none"]
    IN  SetTargetState(s, "vertexFormat", fmt)

bindVertexBuffer(s, bufferId) == SetTargetState(s, "vertexBinding", bufferId)

bindIndexBuffer(s, bufferId) == SetTargetState(s, "elementBinding", bufferId)

\* ---- transform feedback
GL_POINTS == 0
GL_LINES == 1
GL_TRIANGLES == 4

\* requestTransformFeedbackSupport: a static that asks the driver on the first
\* call and warns then if the support is missing.
requestTransformFeedbackSupport(s) ==
    IF s.env.transformFeedback # "unqueried"
    THEN s
    ELSE IF s.driver.transformFeedback = "yes"
         THEN [s EXCEPT !.env.transformFeedback = "yes"]
         ELSE Warn([s EXCEPT !.env.transformFeedback = "no"], "transformFeedbackNotSupported")

startTransformFeedback(s, primitiveMode) ==
    Then(requestTransformFeedbackSupport(applyChanges(s, FALSE)),
         LAMBDA s1 :
             [(IF s1.env.transformFeedback = "no" THEN s1
               ELSE IF primitiveMode = 0
                    THEN Gl(s1, "glEndTransformFeedback", 0)
                    ELSE Gl(s1, "glBeginTransformFeedback", 0))
                 EXCEPT !.activeFeedbackStatus.mode = primitiveMode])

stopTransformFeedback(s) == startTransformFeedback(s, 0)

setTransformFeedbackBuffer(s, buffer) ==
    Then(requestTransformFeedbackSupport(applyChanges(s, FALSE)),
         LAMBDA s1 :
             Then([(IF s1.env.transformFeedback = "yes" THEN Gl(s1, "glBindBuffer", 0) ELSE s1)
                      EXCEPT !.activeFeedbackStatus.buffer = buffer],
                  LAMBDA s3 : startTransformFeedback(s3, s3.activeFeedbackStatus.mode)))

pushTransformFeedbackBufferStatus(s) ==
    [s EXCEPT !.stacks[Cat("feedback", 0)] = Append(@, s.activeFeedbackStatus)]

\* The source restores the top of the stack and leaves it on the stack.
popTransformFeedbackBufferStatus(s) ==
    IF s.stacks[Cat("feedback", 0)] = <<>>
    THEN Warn(s, "emptyStack")
    ELSE Then([stopTransformFeedback(s) EXCEPT
                   !.activeFeedbackStatus = Top(s.stacks[Cat("feedback", 0)])],
              LAMBDA s1 : startTransformFeedback(s1, s1.activeFeedbackStatus.mode))

\* ---- lights
\* std::numeric_limits<uint8_t>::max(), the id of a failed registration.
InvalidLightId == MaxLightId + 1

\* A light descriptor that is not in lightRegistry.
NotRegistered == 0 - 1

\* An entry of activeLightSet.lights that was never written.
Indeterminate == 0 - 1

SetMin(S) == CHOOSE x \in S : \A y \in S : x <= y

\* registerLight without the early return on an empty pool: the descriptor goes
\* to the slot of InvalidLightId.
registerLightWritesOnFailure(s, light) ==
    IF s.freeLightIds = {}
    THEN Then(setParameter(Warn(s, "cannotRegisterLight"), "LightData", InvalidLightId, light),
              LAMBDA s1 : IF Ok(s1) THEN [s1 EXCEPT !.ret = InvalidLightId] ELSE s1)
    ELSE Then(SetMin(s.freeLightIds),
              LAMBDA id :
                  Then(setParameter([s EXCEPT !.freeLightIds = @ \ {id}], "LightData", id, light),
                       LAMBDA s1 : IF Ok(s1) THEN [s1 EXCEPT !.ret = id] ELSE s1))

\* registerLight taking the highest free id.
registerLightHighest(s, light) ==
    IF s.freeLightIds = {}
    THEN [Warn(s, "cannotRegisterLight") EXCEPT !.ret = InvalidLightId]
    ELSE Then(CHOOSE x \in s.freeLightIds : \A y \in s.freeLightIds : y <= x,
              LAMBDA id :
                  Then(setParameter([s EXCEPT !.freeLightIds = @ \ {id}], "LightData", id, light),
                       LAMBDA s1 : IF Ok(s1) THEN [s1 EXCEPT !.ret = id] ELSE s1))

registerLight(s, light) ==
    IF s.freeLightIds = {}
    THEN [Warn(s, "cannotRegisterLight") EXCEPT !.ret = InvalidLightId]
    ELSE Then(SetMin(s.freeLightIds),
              LAMBDA id :
                  Then(setParameter([s EXCEPT !.freeLightIds = @ \ {id}], "LightData", id, light),
                       LAMBDA s1 : IF Ok(s1) THEN [s1 EXCEPT !.ret = id] ELSE s1))

setLight(s, lightNumber, light) ==
    setParameter([s EXCEPT !.freeLightIds = @ \ {lightNumber}], "LightData", lightNumber, light)

\* unregisterLight that also takes the id out of the active light set.
unregisterLightAndDisable(s, lightNumber) ==
    LET set == s.activeLightSet
        found == {i \in 1..set.count : set.lights[i] = lightNumber}
    IN  IF found = {}
        THEN [s EXCEPT !.freeLightIds = @ \cup {lightNumber}]
        ELSE [s EXCEPT !.freeLightIds = @ \cup {lightNumber},
                       !.activeLightSet.count = @ - 1,
                       !.activeLightSet.lights[SetMin(found)] = set.lights[set.count],
                       !.activeLightSet.lights[set.count] = lightNumber]

unregisterLight(s, lightNumber) == [s EXCEPT !.freeLightIds = @ \cup {lightNumber}]

\* enableLight(uint8_t lightNumber) without the search for lightNumber.
enableLightNumberNoSearch(s, lightNumber) ==
    LET set == s.activeLightSet
    IN  IF set.count >= MaxEnabledLights
        THEN Warn(s, "cannotEnableLight")
        ELSE [s EXCEPT !.activeLightSet.lights[set.count + 1] = lightNumber,
                       !.activeLightSet.count = @ + 1]

\* enableLight(uint8_t lightNumber)
enableLightNumber(s, lightNumber) ==
    LET set == s.activeLightSet
    IN  IF \E i \in 1..set.count : set.lights[i] = lightNumber
        THEN s
        ELSE IF set.count >= MaxEnabledLights
             THEN Warn(s, "cannotEnableLight")
             ELSE [s EXCEPT !.activeLightSet.lights[set.count + 1] = lightNumber,
                            !.activeLightSet.count = @ + 1]

\* enableLight(const LightParameters &) without the lookup in lightRegistry.
enableLightAlwaysRegister(s, light) ==
    Then(Then(registerLight(s, light),
              LAMBDA sr : IF Ok(sr) THEN [sr EXCEPT !.lightRegistry[light] = sr.ret] ELSE sr),
         LAMBDA s1 :
             IF Ok(s1)
             THEN [enableLightNumber(s1, s1.lightRegistry[light])
                      EXCEPT !.ret = s1.lightRegistry[light]]
             ELSE s1)

\* enableLight(const LightParameters &)
enableLight(s, light) ==
    Then(IF s.lightRegistry[light] = NotRegistered
         THEN Then(registerLight(s, light),
                   LAMBDA sr : IF Ok(sr) THEN [sr EXCEPT !.lightRegistry[light] = sr.ret] ELSE sr)
         ELSE s,
         LAMBDA s1 :
             IF Ok(s1)
             THEN [enableLightNumber(s1, s1.lightRegistry[light])
                      EXCEPT !.ret = s1.lightRegistry[light]]
             ELSE s1)

\* disableLight that drops the last entry instead of swapping.
disableLightDropsLast(s, lightNumber) ==
    IF \E i \in 1..s.activeLightSet.count : s.activeLightSet.lights[i] = lightNumber
    THEN [s EXCEPT !.activeLightSet.count = @ - 1]
    ELSE s

disableLight(s, lightNumber) ==
    LET set == s.activeLightSet
        found == {i \in 1..set.count : set.lights[i] = lightNumber}
    IN  IF found = {}
        THEN s
        ELSE LET pos == SetMin(found)
             IN  [s EXCEPT !.activeLightSet.count = @ - 1,
                           !.activeLightSet.lights[pos] = set.lights[set.count],
                           !.activeLightSet.lights[set.count] = set.lights[pos]]

\* ---- the bounding box of the vertex record
\* Geometry::Box(minx, maxx, miny, maxy, minz, maxz), and Geometry::Box().
Box(minx, maxx, miny, maxy, minz, maxz) ==
    [min |-> <<minx, miny, minz>>, max |-> <<maxx, maxy, maxz>>]

DefaultBox == Box(0, 0, 0, 0, 0, 0)

\* Coordinates are MinCoord..MaxCoord; std::numeric_limits<float>::max() and
\* lowest() lie outside of them.
FloatMax == MaxCoord + 1
FloatLowest == MinCoord - 1

\* The loop over the vertices from vertex i on, for one dimension: values[i]
\* is what the accessor returns for vertex i.
RECURSIVE minOfDim(_, _, _, _, _)
minOfDim(values, vertexCount, dim, i, m) ==
    IF i > vertexCount THEN m
    ELSE minOfDim(values, vertexCount, dim, i + 1,
                  IF values[i][dim] < m THEN values[i][dim] ELSE m)

RECURSIVE maxOfDim(_, _, _, _, _)
maxOfDim(values, vertexCount, dim, i, m) ==
    IF i > vertexCount THEN m
    ELSE maxOfDim(values, vertexCount, dim, i + 1,
                  IF values[i][dim] > m THEN values[i][dim] ELSE m)

\* updateBoundingBox whose maxima start at zero.
updateBoundingBoxMaxFromZero(s, vertexNum, values) ==
    IF s.vd.vertexCount = 0 THEN [s EXCEPT !.vd.bb = DefaultBox]
    ELSE IF vertexNum < 1 THEN Warn(s, "vertexComponentCountIsZero")
    ELSE LET min == [dim \in 1..vertexNum |->
                         minOfDim(values, s.vd.vertexCount, dim, 1, FloatMax)]
             max == [dim \in 1..vertexNum |->
                         maxOfDim(values, s.vd.vertexCount, dim, 1, 0)]
         IN  [s EXCEPT !.vd.bb =
                 IF vertexNum = 1 THEN Box(min[1], max[1], 0, 0, 0, 0)
                 ELSE IF vertexNum = 2 THEN Box(min[1], max[1], min[2], max[2], 0, 0)
                 ELSE Box(min[1], max[1], min[2], max[2], min[3], max[3])]

\* MeshVertexData::updateBoundingBox. vertexNum is the number of values of the
\* position attribute and values[i] the position of vertex i, as the
\* description and the accessor of the record deliver them.
updateBoundingBox(s, vertexNum, values) ==
    IF s.vd.vertexCount = 0 THEN [s EXCEPT !.vd.bb = DefaultBox]
    ELSE IF vertexNum < 1 THEN Warn(s, "vertexComponentCountIsZero")
    ELSE LET min == [dim \in 1..vertexNum |->
                         minOfDim(values, s.vd.vertexCount, dim, 1, FloatMax)]
             max == [dim \in 1..vertexNum |->
                         maxOfDim(values, s.vd.vertexCount, dim, 1, FloatLowest)]
         IN  [s EXCEPT !.vd.bb =
                 IF vertexNum = 1 THEN Box(min[1], max[1], 0, 0, 0, 0)
                 ELSE IF vertexNum = 2 THEN Box(min[1], max[1], min[2], max[2], 0, 0)
                 ELSE Box(min[1], max[1], min[2], max[2], min[3], max[3])]

\* MeshVertexData::_setBoundingBox
setBoundingBox(s, box) == [s EXCEPT !.vd.bb = box]

\* ---- MeshVertexData (the vertex record of the mesh that is drawn)
\* VertexDescription::getVertexSize: one byte per attribute (scaled down).
getVertexSize(vd) == vd

\* The buffer target of an upload, as the journal records it: GL_ARRAY_BUFFER
\* for vertex data, GL_ELEMENT_ARRAY_BUFFER for index data.
ArrayBuffer == 0

ElementArrayBuffer == ArrayBuffer + 1

\* A BufferObject without a device buffer (BufferObject::destroy leaves it so).
NoBuffer == [valid |-> FALSE, data |-> <<>>, usage |-> {}]

isUploaded(s) == s.vd.bufferObject.valid

\* std::vector::resize keeps the bytes it has and fills with zero.
allocate(s, count, vd) ==
    [s EXCEPT !.vd.vertexDescription = vd,
              !.vd.vertexCount = count,
              !.vd.binaryData =
                  [i \in 1..(getVertexSize(vd) * count) |-> IF i <= Len(@) THEN @[i] ELSE 0],
              !.vd.dataChanged = TRUE]

\* removeGlBuffer that leaves the device buffer in place.
removeGlBufferNoDestroy(s) == s

removeGlBuffer(s) == [s EXCEPT !.vd.bufferObject = NoBuffer]

\* upload(uint32_t usageHint) that leaves dataChanged as it is.
uploadWithHintKeepsChanged(s, usageHint) ==
    IF s.vd.vertexCount = 0 \/ s.vd.binaryData = <<>>
    THEN s
    ELSE Then(IF isUploaded(s) THEN removeGlBuffer(s) ELSE s,
              LAMBDA s1 :
                  IF s.fault = Ev("uploadData", "", 0)
                  THEN removeGlBuffer(Warn(s1, "uploadFailed"))
                  ELSE [Gl(s1, "glBufferData", ArrayBuffer) EXCEPT
                            !.vd.bufferObject = [valid |-> TRUE, data |-> s.vd.binaryData,
                                                 usage |-> usageHint]])

\* MeshVertexData::upload(uint32_t usageHint): the state after it (the result
\* is whether the record is uploaded and unchanged afterwards).
\* upload(uint32_t usageHint) that removes the device buffer before it looks
\* at the record.
uploadWithHintRemovesFirst(s, usageHint) ==
    Then(IF isUploaded(s) THEN removeGlBuffer(s) ELSE s,
         LAMBDA s1 :
             IF s.vd.vertexCount = 0 \/ s.vd.binaryData = <<>>
             THEN s1
             ELSE IF s.fault = Ev("uploadData", "", 0)
                  THEN removeGlBuffer(Warn(s1, "uploadFailed"))
                  ELSE [Gl(s1, "glBufferData", ArrayBuffer) EXCEPT
                            !.vd.bufferObject = [valid |-> TRUE, data |-> s.vd.binaryData,
                                                 usage |-> usageHint],
                            !.vd.dataChanged = FALSE,
                            !.ret = 1])

uploadWithHint(s, usageHint) ==
    IF s.vd.vertexCount = 0 \/ s.vd.binaryData = <<>>
    THEN s
    ELSE Then(IF isUploaded(s) THEN removeGlBuffer(s) ELSE s,
              LAMBDA s1 :
                  IF s.fault = Ev("uploadData", "", 0)
                  THEN removeGlBuffer(Warn(s1, "uploadFailed"))
                  ELSE [Gl(s1, "glBufferData", ArrayBuffer) EXCEPT
                            !.vd.bufferObject = [valid |-> TRUE, data |-> s.vd.binaryData,
                                                 usage |-> usageHint],
                            !.vd.dataChanged = FALSE,
                            !.ret = 1])

\* MeshVertexData::upload()
upload(s) == uploadWithHint(s, {"GL_STATIC_DRAW"})

\* MeshVertexData::markAsChanged
markAsChanged(s) == [s EXCEPT !.vd.dataChanged = TRUE]

\* Writing the local bytes through data() or operator[].
fill(s, bytes) == [s EXCEPT !.vd.binaryData = bytes]

\* BufferObject::downloadData: numBytes bytes of the device buffer (zero where
\* the buffer is shorter).
downloadData(bufferObject, numBytes) ==
    [i \in 1..numBytes |-> IF i <= Len(bufferObject.data) THEN bufferObject.data[i] ELSE 0]

\* MeshVertexData::downloadTo (LIB_GL), for destination = binaryData
downloadTo(s) ==
    [s EXCEPT !.vd.binaryData =
                  downloadData(s.vd.bufferObject,
                               getVertexSize(s.vd.vertexDescription) * s.vd.vertexCount)]

\* download that leaves the local bytes as they are.
downloadNoCopy(s) ==
    IF ~isUploaded(s) \/ s.vd.vertexCount = 0
    THEN s
    ELSE [s EXCEPT !.vd.dataChanged = FALSE]

\* MeshVertexData::download
download(s) ==
    IF ~isUploaded(s) \/ s.vd.vertexCount = 0
    THEN s
    ELSE [downloadTo(s) EXCEPT !.vd.dataChanged = FALSE]

\* MeshVertexData::releaseLocalData
releaseLocalData(s) == [s EXCEPT !.vd.binaryData = <<>>]

\* ---- MeshIndexData (the index record of the mesh)
allocateIndices(s, count) ==
    [s EXCEPT !.id.indexCount = count,
              !.id.indexArray = [i \in 1..count |-> IF i <= Len(@) THEN @[i] ELSE 0],
              !.id.dataChanged = TRUE]

markAsChangedIndices(s) == [s EXCEPT !.id.dataChanged = TRUE]

isUploadedIndices(s) == s.id.bufferObject.valid

removeGlBufferIndices(s) == [s EXCEPT !.id.bufferObject = NoBuffer]

uploadIndices(s, usageHint) ==
    IF s.id.indexCount = 0 \/ s.id.indexArray = <<>>
    THEN s
    ELSE Then(IF isUploadedIndices(s) THEN removeGlBufferIndices(s) ELSE s,
              LAMBDA s1 :
                  IF s.fault = Ev("uploadIndexData", "", 0)
                  THEN removeGlBufferIndices(Warn(s1, "uploadFailed"))
                  ELSE [Gl(s1, "glBufferData", ElementArrayBuffer) EXCEPT
                            !.id.bufferObject = [valid |-> TRUE, data |-> s.id.indexArray,
                                                 usage |-> usageHint],
                            !.id.dataChanged = FALSE])

releaseLocalDataIndices(s) == [s EXCEPT !.id.indexArray = <<>>]

\* MeshIndexData::download, as MeshVertexData::download.
downloadIndices(s) ==
    IF ~isUploadedIndices(s) \/ s.id.indexCount = 0
    THEN s
    ELSE [s EXCEPT !.id.indexArray = downloadData(s.id.bufferObject, s.id.indexCount),
                   !.id.dataChanged = FALSE]

\* ---- SimpleMeshDataStrategy
\* assureLocalVertexData that downloads whenever a device buffer exists.
assureLocalVertexDataAlways(s) == IF isUploaded(s) THEN download(s) ELSE s

\* SimpleMeshDataStrategy::assureLocalVertexData; dataSize() is the number of
\* local bytes.
assureLocalVertexData(s) ==
    IF Len(s.vd.binaryData) = 0 /\ isUploaded(s) THEN download(s) ELSE s

\* SimpleMeshDataStrategy::assureLocalIndexData
assureLocalIndexData(s) ==
    IF Len(s.id.indexArray) = 0 /\ isUploadedIndices(s) THEN downloadIndices(s) ELSE s

StrategyFlags == {"PRESERVE_LOCAL_DATA", "DYNAMIC_VERTICES", "DEBUG_OUTPUT", "CLIENT_STORAGE"}

\* std::cout << text, when the strategy has DEBUG_OUTPUT.
DebugOutput(s, flags, text) ==
    IF "DEBUG_OUTPUT" \in flags
    THEN [s EXCEPT !.journal = Append(@, Ev("out", text, 0))]
    ELSE s

\* The part of prepare for the index data.
prepareIndexData(s, flags) ==
    Then(IF s.id.indexCount = 0 /\ isUploadedIndices(s)
         THEN removeGlBufferIndices(DebugOutput(s, flags, "~idxBO"))
         ELSE IF s.id.indexCount # 0 /\ (s.id.dataChanged \/ ~isUploadedIndices(s))
              THEN uploadIndices(DebugOutput(s, flags, "+idxBO"), {"GL_STATIC_DRAW"})
              ELSE s,
         LAMBDA s1 :
             IF "PRESERVE_LOCAL_DATA" \notin flags /\ isUploadedIndices(s1)
                /\ s1.id.indexArray # <<>>
             THEN releaseLocalDataIndices(DebugOutput(s1, flags, "~idxLD"))
             ELSE s1)

\* The part of prepare for the vertex data, releasing the local data whatever
\* the flags.
prepareVertexDataAlwaysRelease(s, flags) ==
    Then(IF s.vd.vertexCount = 0 /\ isUploaded(s)
         THEN removeGlBuffer(DebugOutput(s, flags, "~vBO"))
         ELSE IF s.vd.vertexCount # 0 /\ (s.vd.dataChanged \/ ~isUploaded(s))
              THEN uploadWithHint(DebugOutput(s, flags, "+vBO"),
                                  {IF "DYNAMIC_VERTICES" \in flags
                                   THEN "FLAGS_DYNAMIC" ELSE "FLAGS_STATIC"}
                                      \cup (IF "CLIENT_STORAGE" \in flags
                                            THEN {"FLAG_CLIENT_STORAGE"} ELSE {}))
              ELSE s,
         LAMBDA s1 :
             IF isUploaded(s1) /\ s1.vd.binaryData # <<>>
             THEN releaseLocalData(DebugOutput(s1, flags, "~vLD"))
             ELSE s1)

\* The part of prepare for the vertex data.
prepareVertexData(s, flags) ==
    Then(IF s.vd.vertexCount = 0 /\ isUploaded(s)
         THEN removeGlBuffer(DebugOutput(s, flags, "~vBO"))
         ELSE IF s.vd.vertexCount # 0 /\ (s.vd.dataChanged \/ ~isUploaded(s))
              THEN uploadWithHint(DebugOutput(s, flags, "+vBO"),
                                  {IF "DYNAMIC_VERTICES" \in flags
                                   THEN "FLAGS_DYNAMIC" ELSE "FLAGS_STATIC"}
                                      \cup (IF "CLIENT_STORAGE" \in flags
                                            THEN {"FLAG_CLIENT_STORAGE"} ELSE {}))
              ELSE s,
         LAMBDA s1 :
             IF "PRESERVE_LOCAL_DATA" \notin flags /\ isUploaded(s1) /\ s1.vd.binaryData # <<>>
             THEN releaseLocalData(DebugOutput(s1, flags, "~vLD"))
             ELSE s1)

\* SimpleMeshDataStrategy::prepare
prepare(s, flags) == prepareVertexData(prepareIndexData(s, flags), flags)

\* MeshDataStrategy::doDisplayMesh; usingIndexData is m->isUsingIndexData().
\* The id of a device buffer is 1, and 0 when there is none.
doDisplayMesh(s, usingIndexData) ==
    Then(IF ~isUploaded(s) THEN upload(s) ELSE s,
         LAMBDA s1 :
             Then(bindVertexBuffer(setVertexFormat(s1, s1.vd.vertexDescription),
                                   IF isUploaded(s1) THEN 1 ELSE 0),
                  LAMBDA s2 :
                      Then(IF usingIndexData
                           THEN Then(IF ~isUploadedIndices(s2)
                                     THEN uploadIndices(s2, {"GL_STATIC_DRAW"})
                                     ELSE s2,
                                     LAMBDA s3 :
                                         bindIndexBuffer(
                                             drawElements(
                                                 bindIndexBuffer(
                                                     s3,
                                                     IF isUploadedIndices(s3) THEN 1 ELSE 0)),
                                             0))
                           ELSE drawArrays(s2),
                           LAMBDA s4 : bindVertexBuffer(s4, 0))))

\* MeshVertexData::bind
bindVertexData(s) ==
    Then(IF ~isUploaded(s) THEN upload(s) ELSE s,
         LAMBDA s1 :
             bindVertexBuffer(setVertexFormat(s1, s1.vd.vertexDescription),
                              IF isUploaded(s1) THEN 1 ELSE 0))

\* A drawArray that applies the changes before it binds the vertex data.
drawArrayBindAfterApply(s, startIndex, numberOfElements) ==
    IF (startIndex + numberOfElements) % UIntModulus > s.vd.vertexCount
    THEN Throw(s, "out_of_range")
    ELSE Gl(bindVertexData(applyChanges(s, FALSE)), "glDrawArrays", 0)

\* MeshVertexData::drawArray: the range check adds two 32-bit unsigned numbers.
drawArray(s, startIndex, numberOfElements) ==
    IF (startIndex + numberOfElements) % UIntModulus > s.vd.vertexCount
    THEN Throw(s, "out_of_range")
    ELSE Gl(applyChanges(bindVertexData(s), FALSE), "glDrawArrays", 0)

\* ------------------------------------------------------------ constructor
\* ParameterCache::createCache: a slot that was never written holds a record
\* of its layout with indeterminate content.
UnwrittenSlot(name) ==
    CASE name = "FrameData" ->
             [matrix_worldToCamera |-> Indeterminate, matrix_cameraToWorld |-> Indeterminate,
              matrix_cameraToClipping |-> Indeterminate,
              matrix_clippingToCamera |-> Indeterminate, viewport |-> Indeterminate]
      [] name = "MaterialData" -> [mat |-> Indeterminate, enabled |-> FALSE]
      [] name = "LightSetData" ->
             [count |-> Indeterminate, lights |-> [i \in 1..MaxEnabledLights |-> Indeterminate]]
      [] name = "TextureSetData" -> [u \in TextureUnits |-> "indeterminate"]

\* RenderingContext::RenderingContext: the setters it calls leave every
\* category at its default except cull face (CULL_BACK) and depth buffer
\* (test enabled, LESS), which differ from a default-constructed PipelineState.
\* enabledTextures is not initialised by the constructor: its entries are
\* indeterminate until setTexture writes them. What the driver supports is
\* asked on first use.
Constructed ==
    [targetPipelineState |->
         [PipelineState0 EXCEPT !.state["cullFace"] = 1, !.state["depthBuffer"] = 1],
     activePipelineState |-> PipelineState0,
     stacks |-> [k \in AllCats |-> <<>>],
     boundImages |-> [u \in ImageUnits |-> 0],
     activeFrameData |->
         [matrix_worldToCamera |-> 0, matrix_cameraToWorld |-> 0,
          matrix_cameraToClipping |-> 0, matrix_clippingToCamera |-> 0,
          viewport |-> 0],
     activeObjectData |-> [matrix_modelToCamera |-> 0, pointSize |-> 0],
     activeMaterial |-> MaterialData(0),
     enabledTextures |-> [u \in TextureUnits |-> "indeterminate"],
     activeFeedbackStatus |-> [buffer |-> 0, mode |-> 0],
     lightRegistry |-> [l \in Lights |-> NotRegistered],
     freeLightIds |-> 0..MaxLightId,
     activeLightSet |-> [count |-> 0, lights |-> [i \in 1..MaxEnabledLights |-> Indeterminate]],
     cache |-> [n \in {"FrameData", "MaterialData", "LightSetData", "TextureSetData"} |->
                    [i \in {0} |-> UnwrittenSlot(n)]]
                @@ [n \in {"LightData"} |-> [i \in LightNumbers |-> 0]],
     ret |-> 0,
     objectCursor |-> 0,
     objectBuffer |-> 0,
     textures |-> [t \in Textures |-> [glId |-> FALSE, dataHasChanged |-> TRUE]],
     vd |-> [vertexDescription |-> 0, vertexCount |-> 0, binaryData |-> <<>>,
             bb |-> DefaultBox,
             bufferObject |-> NoBuffer, dataChanged |-> FALSE],
     id |-> [indexCount |-> 0, indexArray |-> <<>>, bufferObject |-> NoBuffer,
             dataChanged |-> FALSE],
     env |-> [imageBinding |-> "unqueried", transformFeedback |-> "unqueried",
              mipmapCreation |-> "unqueried"],
     driver |-> NoDriver,
     fault |-> NoFault,
     journal |-> <<>>,
     thrown |-> "none"]

\* Start of an API call: the journal, the exception state, the fault and the
\* driver's answers are per call.
Begin(s, fault, driver) ==
    [s EXCEPT !.journal = <<>>, !.thrown = "none", !.ret = 0, !.fault = fault,
              !.driver = driver]

B(s) == Begin(s, NoFault, NoDriver)

\* The nested operations of applyChanges that may raise an error: a state
\* change of PipelineState::apply, one of the four ParameterCache::setParameter
\* calls, or the uniform synchronisation of the shader.
ApplyFaults ==
    {Ev("state", c, 0) : c \in StateCats}
        \cup {Ev("state", "texture", u) : u \in TextureUnits}
        \cup {Ev("cache", n, 0) :
                 n \in {"FrameData", "MaterialData", "LightSetData", "TextureSetData"}}
        \cup {Ev("uniforms", "", 0)}

\* Start of a call in which the nested operation f fails.
BA(s, f) == Begin(s, f, NoDriver)

\* The answers the driver may give for a capability: the one it gave before,
\* if it was asked.
Support(known) == IF known = "unqueried" THEN {"yes", "no"} ELSE {known}

BI(s, sup) == Begin(s, NoFault, [NoDriver EXCEPT !.imageBinding = sup])

BF(s, sup) == Begin(s, NoFault, [NoDriver EXCEPT !.transformFeedback = sup])

\* The value the getter of a category returns, and the depth of its stack.
Getter(s, k) ==
    CASE k.c \in PlainCats -> getState(s, k.c)
      [] k.c = "shader" -> getActiveShader(s)
      [] k.c = "viewport" -> getViewport(s)
      [] k.c = "point" -> getPointParameters(s)
      [] k.c = "modelToCamera" -> getMatrix_modelToCamera(s)
      [] k.c = "cameraToClipping" -> getMatrix_cameraToClipping(s)
      [] k.c = "material" -> s.activeMaterial
      [] k.c = "feedback" -> s.activeFeedbackStatus
      [] k.c = "texture" -> getTexture(s, k.u)
      [] k.c = "image" -> getBoundImage(s, k.u)

Depth(s, k) == Len(s.stacks[k])

\* No upload on record: see the field up of last.
NotUploaded == [ok |-> FALSE, bytes |-> <<>>]

Start ==
    /\ rc = Constructed
    /\ calls = 0
    /\ last = [op |-> "ctor", cat |-> Cat("none", 0), arg |-> 0, pre |-> 0, depth |-> 0,
               matched |-> FALSE, exp |-> [val |-> 0, depth |-> 0, clean |-> FALSE],
               fault |-> NoFault, up |-> NotUploaded]
    /\ shadow = [k \in AllCats |-> <<>>]

\* Every call, from the constructed context.
Init == Start /\ run = [limit |-> MaxCalls, focused |-> FALSE]

\* The application sets state and issues device calls.
InitApply == Start /\ run = [limit |-> MaxApplyCalls, focused |-> FALSE]

\* The application sets state and issues device calls in which a nested
\* operation of applyChanges fails.
InitFault == Start /\ run = [limit |-> MaxFaultCalls, focused |-> FALSE]

\* The application only draws; applyChanges may fail inside a draw call.
InitDraw == Start /\ run = [limit |-> MaxDrawCalls, focused |-> FALSE]

\* The application changes the data of the mesh and prepares the mesh.
InitMesh == Start /\ run = [limit |-> MaxMeshCalls, focused |-> FALSE]

\* The application works on the vertex record of a mesh.
InitRecord == Start /\ run = [limit |-> MaxRecordCalls, focused |-> FALSE]

\* The application computes the bounding box of a vertex record that has any
\* number of vertices and holds the default box or an older box.
InitBox ==
    /\ \E n \in 0..MaxBoxVertices, vd \in VertexDescriptions,
          box \in {DefaultBox, Box(MinCoord, MaxCoord, MinCoord, 0, 0, MaxCoord)} :
           rc = setBoundingBox(allocate(Constructed, n, vd), box)
    /\ calls = 0
    /\ last = [op |-> "ctor", cat |-> Cat("none", 0), arg |-> 0, pre |-> 0, depth |-> 0,
               matched |-> FALSE, exp |-> [val |-> 0, depth |-> 0, clean |-> FALSE],
               fault |-> NoFault, up |-> NotUploaded]
    /\ shadow = [k \in AllCats |-> <<>>]
    /\ run = [limit |-> MaxBoxCalls, focused |-> FALSE]

\* The application works on the bound images, with valid and invalid units.
InitTexture == Start /\ run = [limit |-> MaxTextureCalls, focused |-> FALSE]

\* The application works on the bound images.
InitImage == Start /\ run = [limit |-> MaxImageCalls, focused |-> FALSE]

\* The application registers, enables and disables lights.
InitLight == Start /\ run = [limit |-> MaxLightCalls, focused |-> FALSE]

\* The application works on the stack of one category (all units of it).
InitFocus == Start /\ run = [limit |-> MaxFocusCalls, focused |-> TRUE]

\* The pushes on record after a call: a call that threw takes, from every push
\* made so far, the mark that every call since it returned normally.
Unclean(sh, threw) ==
    IF threw
    THEN [k \in AllCats |-> [i \in 1..Len(sh[k]) |-> [sh[k][i] EXCEPT !.clean = FALSE]]]
    ELSE sh

\* One API call op on category k (Cat("none", 0): no category) with argument
\* arg that leaves the context as s2.
CallV(op, k, arg, s2) ==
    LET tracked == k \in AllCats
        matched == tracked /\ shadow[k] # <<>>
    IN  /\ UNCHANGED run
        /\ calls' = calls + 1
        /\ rc' = [s2 EXCEPT !.fault = NoFault, !.driver = NoDriver]
        /\ last' = [op |-> op, cat |-> k, arg |-> arg,
                    pre |-> IF tracked THEN Getter(rc, k) ELSE 0,
                    depth |-> IF tracked THEN Depth(rc, k) ELSE 0,
                    matched |-> matched,
                    exp |-> IF matched THEN Top(shadow[k])
                            ELSE [val |-> 0, depth |-> 0, clean |-> FALSE],
                    fault |-> s2.fault,
                    up |-> IF op = "upload"
                                /\ \E i \in 1..Len(s2.journal) : s2.journal[i].c = "glBufferData"
                           THEN [ok |-> TRUE, bytes |-> rc.vd.binaryData]
                           ELSE IF op = "releaseLocalData" THEN last.up ELSE NotUploaded]
        /\ shadow' =
               Unclean(IF tracked /\ op \in {"push", "pushAndSet"}
                       THEN [shadow EXCEPT ![k] = Append(@, [val |-> Getter(rc, k),
                                                              depth |-> Depth(rc, k),
                                                              clean |-> TRUE])]
                       ELSE IF matched /\ op = "pop" /\ Ok(s2)
                            THEN [shadow EXCEPT ![k] = Pop(@)]
                            ELSE shadow,
                       ~Ok(s2))

\* A call on category k may be made while the run has calls left and, in a run
\* that keeps to one category, when k is that category.
May(k) ==
    /\ calls < run.limit
    /\ run.focused => (calls = 0 \/ k.c = last.cat.c)

\* A call without an argument.
Call(op, k, s2) == CallV(op, k, 0, s2)

NoCat == Cat("none", 0)

\* ---- the calls of the application
SetState ==
    \E c \in PlainCats, p \in Vals :
        /\ May(Cat(c, 0))
        /\ CallV("set", Cat(c, 0), p, setState(B(rc), c, p))

PushState ==
    \E c \in PlainCats :
        /\ May(Cat(c, 0))
        /\ Call("push", Cat(c, 0), pushState(B(rc), c))

PushAndSetState ==
    \E c \in PlainCats, p \in Vals :
        /\ May(Cat(c, 0))
        /\ CallV("pushAndSet", Cat(c, 0), p, pushAndSetState(B(rc), c, p))

PopState ==
    \E c \in PlainCats :
        /\ May(Cat(c, 0))
        /\ Call("pop", Cat(c, 0), popState(B(rc), c))

SetShader ==
    \E sh \in Vals :
        /\ May(Cat("shader", 0))
        /\ CallV("set", Cat("shader", 0), sh, setShader(B(rc), sh))

PushShader ==
    /\ May(Cat("shader", 0))
    /\ Call("push", Cat("shader", 0), pushShader(B(rc)))

PushAndSetShader ==
    \E sh \in Vals :
        /\ May(Cat("shader", 0))
        /\ CallV("pushAndSet", Cat("shader", 0), sh, pushAndSetShader(B(rc), sh))

PopShader ==
    /\ May(Cat("shader", 0))
    /\ Call("pop", Cat("shader", 0), popShader(B(rc)))

SetViewport ==
    \E vp \in Vals :
        /\ May(Cat("viewport", 0))
        /\ CallV("set", Cat("viewport", 0), vp, setViewport(B(rc), vp))

PushViewport ==
    /\ May(Cat("viewport", 0))
    /\ Call("push", Cat("viewport", 0), pushViewport(B(rc)))

PushAndSetViewport ==
    \E vp \in Vals :
        /\ May(Cat("viewport", 0))
        /\ CallV("pushAndSet", Cat("viewport", 0), vp, pushAndSetViewport(B(rc), vp))

PopViewport ==
    /\ May(Cat("viewport", 0))
    /\ Call("pop", Cat("viewport", 0), popViewport(B(rc)))

SetPointParameters ==
    \E p \in Vals :
        /\ May(Cat("point", 0))
        /\ CallV("set", Cat("point", 0), p, setPointParameters(B(rc), p))

PushPointParameters ==
    /\ May(Cat("point", 0))
    /\ Call("push", Cat("point", 0), pushPointParameters(B(rc)))

PushAndSetPointParameters ==
    \E p \in Vals :
        /\ May(Cat("point", 0))
        /\ CallV("pushAndSet", Cat("point", 0), p, pushAndSetPointParameters(B(rc), p))

PopPointParameters ==
    /\ May(Cat("point", 0))
    /\ Call("pop", Cat("point", 0), popPointParameters(B(rc)))

SetMatrix_cameraToClipping ==
    \E m \in Vals :
        /\ May(Cat("cameraToClipping", 0))
        /\ CallV("set", Cat("cameraToClipping", 0), m, setMatrix_cameraToClipping(B(rc), m))

PushMatrix_cameraToClipping ==
    /\ May(Cat("cameraToClipping", 0))
    /\ Call("push", Cat("cameraToClipping", 0), pushMatrix_cameraToClipping(B(rc)))

PushAndSetMatrix_cameraToClipping ==
    \E m \in Vals :
        /\ May(Cat("cameraToClipping", 0))
        /\ CallV("pushAndSet", Cat("cameraToClipping", 0), m,
                 pushAndSetMatrix_cameraToClipping(B(rc), m))

PopMatrix_cameraToClipping ==
    /\ May(Cat("cameraToClipping", 0))
    /\ Call("pop", Cat("cameraToClipping", 0), popMatrix_cameraToClipping(B(rc)))

SetMatrix_cameraToWorld ==
    \E m \in Vals :
        /\ May(NoCat)
        /\ Call("setCameraToWorld", NoCat, setMatrix_cameraToWorld(B(rc), m))

SetMatrix_modelToCamera ==
    \E m \in Vals :
        /\ May(Cat("modelToCamera", 0))
        /\ CallV("set", Cat("modelToCamera", 0), m, setMatrix_modelToCamera(B(rc), m))

ResetMatrix ==
    /\ May(Cat("modelToCamera", 0))
    /\ Call("reset", Cat("modelToCamera", 0), resetMatrix(B(rc)))

MultMatrix_modelToCamera ==
    \E m \in Vals :
        /\ May(Cat("modelToCamera", 0))
        /\ CallV("mult", Cat("modelToCamera", 0), m, multMatrix_modelToCamera(B(rc), m))

PushMatrix_modelToCamera ==
    /\ May(Cat("modelToCamera", 0))
    /\ Call("push", Cat("modelToCamera", 0), pushMatrix_modelToCamera(B(rc)))

PushAndSetMatrix_modelToCamera ==
    \E m \in Vals :
        /\ May(Cat("modelToCamera", 0))
        /\ CallV("pushAndSet", Cat("modelToCamera", 0), m,
                 pushAndSetMatrix_modelToCamera(B(rc), m))

PopMatrix_modelToCamera ==
    /\ May(Cat("modelToCamera", 0))
    /\ Call("pop", Cat("modelToCamera", 0), popMatrix_modelToCamera(B(rc)))

SetMaterial ==
    \E m \in Vals :
        /\ May(Cat("material", 0))
        /\ CallV("set", Cat("material", 0), m, setMaterial(B(rc), m))

PushMaterial ==
    /\ May(Cat("material", 0))
    /\ Call("push", Cat("material", 0), pushMaterial(B(rc)))

PushAndSetMaterial ==
    \E m \in Vals :
        /\ May(Cat("material", 0))
        /\ CallV("pushAndSet", Cat("material", 0), m, pushAndSetMaterial(B(rc), m))

PopMaterial ==
    /\ May(Cat("material", 0))
    /\ Call("pop", Cat("material", 0), popMaterial(B(rc)))

SetTexture ==
    \E u \in TextureUnits, t \in 0..MaxTexture :
        /\ May(Cat("texture", u))
        /\ CallV("set", Cat("texture", u), t, setTexture(B(rc), u, t))

PushTexture ==
    \E u \in TextureUnits :
        /\ May(Cat("texture", u))
        /\ Call("push", Cat("texture", u), pushTexture(B(rc), u))

PushAndSetTexture ==
    \E u \in TextureUnits, t \in 0..MaxTexture :
        /\ May(Cat("texture", u))
        /\ CallV("pushAndSet", Cat("texture", u), t, pushAndSetTexture(B(rc), u, t))

PopTexture ==
    \E u \in TextureUnits :
        /\ May(Cat("texture", u))
        /\ Call("pop", Cat("texture", u), popTexture(B(rc), u))

DataChanged ==
    \E t \in Textures :
        /\ May(Cat("texture", 0))
        /\ Call("dataChanged", Cat("texture", 0), dataChanged(B(rc), t))

\* The operations of a texture that borrow texture unit 0; glGenTextures may
\* return no handle.
CreateGLID ==
    \E t \in Textures, f \in {NoFault, Ev("glGenTextures", "", 0)} :
        /\ May(Cat("texture", 0))
        /\ CallV("_createGLID", Cat("texture", 0), t, createGLID(BA(rc, f), t))

CreateMipmaps ==
    \E t \in Textures, sup \in Support(rc.env.mipmapCreation) :
        /\ May(Cat("texture", 0))
        /\ CallV("createMipmaps", Cat("texture", 0), t,
                 createMipmaps(Begin(rc, NoFault, [NoDriver EXCEPT !.mipmapCreation = sup]), t))

UploadGLTexture ==
    \E t \in Textures :
        /\ May(Cat("texture", 0))
        /\ CallV("_uploadGLTexture", Cat("texture", 0), t, uploadGLTexture(B(rc), t))

DownloadGLTexture ==
    \E t \in Textures :
        /\ May(Cat("texture", 0))
        /\ CallV("downloadGLTexture", Cat("texture", 0), t, downloadGLTexture(B(rc), t))

\* Image units are called with every valid unit and with the first invalid one.
GetBoundImage ==
    \E u \in 0..(MaxImageUnit + 1) :
        /\ May(Cat("image", u))
        /\ Call("get", Cat("image", u), getBoundImageCall(B(rc), u))

SetBoundImage ==
    \E u \in 0..(MaxImageUnit + 1), p \in 0..MaxTexture, sup \in Support(rc.env.imageBinding) :
        /\ May(Cat("image", u))
        /\ CallV("set", Cat("image", u), p, setBoundImage(BI(rc, sup), u, p))

PushBoundImage ==
    \E u \in 0..(MaxImageUnit + 1) :
        /\ May(Cat("image", u))
        /\ Call("push", Cat("image", u), pushBoundImage(B(rc), u))

PushAndSetBoundImage ==
    \E u \in 0..(MaxImageUnit + 1), p \in 0..MaxTexture, sup \in Support(rc.env.imageBinding) :
        /\ May(Cat("image", u))
        /\ CallV("pushAndSet", Cat("image", u), p, pushAndSetBoundImage(BI(rc, sup), u, p))

PopBoundImage ==
    \E u \in 0..(MaxImageUnit + 1), sup \in Support(rc.env.imageBinding) :
        /\ May(Cat("image", u))
        /\ Call("pop", Cat("image", u), popBoundImage(BI(rc, sup), u))

SetTransformFeedbackBuffer ==
    \E b \in Vals, sup \in Support(rc.env.transformFeedback) :
        /\ May(Cat("feedback", 0))
        /\ CallV("set", Cat("feedback", 0), b, setTransformFeedbackBuffer(BF(rc, sup), b))

StartTransformFeedback ==
    \E m \in {GL_POINTS, GL_LINES, GL_TRIANGLES}, sup \in Support(rc.env.transformFeedback) :
        /\ May(Cat("feedback", 0))
        /\ CallV("start", Cat("feedback", 0), m, startTransformFeedback(BF(rc, sup), m))

StopTransformFeedback ==
    \E sup \in Support(rc.env.transformFeedback) :
        /\ May(Cat("feedback", 0))
        /\ Call("stop", Cat("feedback", 0), stopTransformFeedback(BF(rc, sup)))

PushTransformFeedbackBufferStatus ==
    /\ May(Cat("feedback", 0))
    /\ Call("push", Cat("feedback", 0), pushTransformFeedbackBufferStatus(B(rc)))

PopTransformFeedbackBufferStatus ==
    \E sup \in Support(rc.env.transformFeedback) :
        /\ May(Cat("feedback", 0))
        /\ Call("pop", Cat("feedback", 0), popTransformFeedbackBufferStatus(BF(rc, sup)))

SetVertexFormat ==
    \E vd \in VertexDescriptions :
        /\ May(NoCat)
        /\ Call("setVertexFormat", NoCat, setVertexFormat(B(rc), vd))

BindVertexBuffer ==
    \E b \in Vals :
        /\ May(NoCat)
        /\ Call("bindVertexBuffer", NoCat, bindVertexBuffer(B(rc), b))

BindIndexBuffer ==
    \E b \in Vals :
        /\ May(NoCat)
        /\ Call("bindIndexBuffer", NoCat, bindIndexBuffer(B(rc), b))

ApplyChanges ==
    \E forced \in BOOLEAN :
        /\ May(NoCat)
        /\ CallV("applyChanges", NoCat, IF forced THEN 1 ELSE 0, applyChanges(B(rc), forced))

Flush ==
    /\ May(NoCat)
    /\ Call("flush", NoCat, flush(B(rc)))

Finish ==
    /\ May(NoCat)
    /\ Call("finish", NoCat, finish(B(rc)))

Barrier ==
    /\ May(NoCat)
    /\ Call("barrier", NoCat, barrier(B(rc)))

ClearScreen ==
    /\ May(NoCat)
    /\ Call("clearScreen", NoCat, clearScreen(B(rc)))

ClearScreenRect ==
    \E r \in Vals :
        /\ May(NoCat)
        /\ Call("clearScreenRect", NoCat, clearScreenRect(B(rc), r))

ClearColor ==
    /\ May(NoCat)
    /\ Call("clearColor", NoCat, clearColor(B(rc)))

ClearDepth ==
    /\ May(NoCat)
    /\ Call("clearDepth", NoCat, clearDepth(B(rc)))

ClearStencil ==
    /\ May(NoCat)
    /\ Call("clearStencil", NoCat, clearStencil(B(rc)))

DispatchCompute ==
    /\ May(NoCat)
    /\ Call("dispatchCompute", NoCat, dispatchCompute(B(rc)))

DispatchComputeIndirect ==
    /\ May(NoCat)
    /\ Call("dispatchComputeIndirect", NoCat, dispatchComputeIndirect(B(rc)))

LoadUniformSubroutines ==
    /\ May(NoCat)
    /\ Call("loadUniformSubroutines", NoCat, loadUniformSubroutines(B(rc)))

DrawArrays ==
    /\ May(NoCat)
    /\ Call("drawArrays", NoCat, drawArrays(B(rc)))

DrawElements ==
    /\ May(NoCat)
    /\ Call("drawElements", NoCat, drawElements(B(rc)))

RegisterLight ==
    \E l \in Lights :
        /\ May(Cat("light", 0))
        /\ CallV("registerLight", Cat("light", 0), l, registerLight(B(rc), l))

SetLight ==
    \E n \in LightNumbers, l \in Lights :
        /\ May(Cat("light", 0))
        /\ CallV("setLight", Cat("light", 0), n, setLight(B(rc), n, l))

UnregisterLight ==
    \E n \in LightNumbers :
        /\ May(Cat("light", 0))
        /\ CallV("unregisterLight", Cat("light", 0), n, unregisterLight(B(rc), n))

EnableLight ==
    \E l \in Lights :
        /\ May(Cat("light", 0))
        /\ CallV("enableLight", Cat("light", 0), l, enableLight(B(rc), l))

EnableLightNumber ==
    \E n \in LightNumbers :
        /\ May(Cat("light", 0))
        /\ CallV("enableLightNumber", Cat("light", 0), n, enableLightNumber(B(rc), n))

DisableLight ==
    \E n \in LightNumbers :
        /\ May(Cat("light", 0))
        /\ CallV("disableLight", Cat("light", 0), n, disableLight(B(rc), n))

Allocate ==
    \E n \in 0..MaxVertices, vd \in VertexDescriptions :
        /\ May(NoCat)
        /\ Call("allocate", NoCat, allocate(B(rc), n, vd))

\* startIndex and numberOfElements are any unsigned numbers of the width.
DrawArray ==
    \E first \in 0..(UIntModulus - 1), n \in 0..(UIntModulus - 1) :
        /\ May(NoCat)
        /\ CallV("drawArray", NoCat, first * UIntModulus + n, drawArray(B(rc), first, n))

UpdateBoundingBox ==
    /\ May(NoCat)
    /\ \E vertexNum \in 0..MaxNumValues :
           \E values \in [1..rc.vd.vertexCount -> [1..vertexNum -> MinCoord..MaxCoord]] :
               CallV("updateBoundingBox", NoCat, [vertexNum |-> vertexNum, values |-> values],
                     updateBoundingBox(B(rc), vertexNum, values))

AllocateIndices ==
    \E n \in 0..MaxIndices :
        /\ May(NoCat)
        /\ Call("allocateIndices", NoCat, allocateIndices(B(rc), n))

Fill ==
    \E bytes \in [1..Len(rc.vd.binaryData) -> 0..MaxVal] :
        /\ rc.vd.binaryData # <<>>
        /\ May(NoCat)
        /\ Call("fill", NoCat, fill(B(rc), bytes))

Upload ==
    \E f \in {NoFault, Ev("uploadData", "", 0)} :
        /\ May(NoCat)
        /\ Call("upload", NoCat, upload(Begin(rc, f, NoDriver)))

Download ==
    /\ May(NoCat)
    /\ Call("download", NoCat, download(B(rc)))

RemoveGlBuffer ==
    /\ May(NoCat)
    /\ Call("removeGlBuffer", NoCat, removeGlBuffer(B(rc)))

ReleaseLocalData ==
    /\ May(NoCat)
    /\ Call("releaseLocalData", NoCat, releaseLocalData(B(rc)))

UploadIndices ==
    \E f \in {NoFault, Ev("uploadIndexData", "", 0)} :
        /\ May(NoCat)
        /\ Call("uploadIndices", NoCat, uploadIndices(Begin(rc, f, NoDriver), {"GL_STATIC_DRAW"}))

ReleaseLocalDataIndices ==
    /\ May(NoCat)
    /\ Call("releaseLocalDataIndices", NoCat, releaseLocalDataIndices(B(rc)))

AssureLocalVertexData ==
    /\ May(NoCat)
    /\ Call("assureLocalVertexData", NoCat, assureLocalVertexData(B(rc)))

AssureLocalIndexData ==
    /\ May(NoCat)
    /\ Call("assureLocalIndexData", NoCat, assureLocalIndexData(B(rc)))

MarkAsChanged ==
    /\ May(NoCat)
    /\ Call("markAsChanged", NoCat, markAsChanged(B(rc)))

MarkAsChangedIndices ==
    /\ May(NoCat)
    /\ Call("markAsChangedIndices", NoCat, markAsChangedIndices(B(rc)))

DoDisplayMesh ==
    \E usingIndexData \in BOOLEAN :
        /\ May(NoCat)
        /\ CallV("doDisplayMesh", NoCat, IF usingIndexData THEN 1 ELSE 0,
                 doDisplayMesh(B(rc), usingIndexData))

\* prepare with any flags of the strategy; the upload of the vertex data or
\* of the index data may fail.
Prepare ==
    \E flags \in SUBSET StrategyFlags,
       f \in {NoFault, Ev("uploadData", "", 0), Ev("uploadIndexData", "", 0)} :
        /\ May(NoCat)
        /\ CallV("prepare", NoCat, flags, prepare(Begin(rc, f, NoDriver), flags))

\* Device calls in which a nested operation of applyChanges raises an error.
ApplyChangesFailing ==
    \E forced \in BOOLEAN, f \in ApplyFaults :
        /\ May(NoCat)
        /\ CallV("applyChanges", NoCat, IF forced THEN 1 ELSE 0,
                 applyChanges(BA(rc, f), forced))

FlushFailing ==
    \E f \in ApplyFaults :
        /\ May(NoCat)
        /\ Call("flush", NoCat, flush(BA(rc, f)))

ClearScreenFailing ==
    \E f \in ApplyFaults :
        /\ May(NoCat)
        /\ Call("clearScreen", NoCat, clearScreen(BA(rc, f)))

DrawArraysFailing ==
    \E f \in ApplyFaults :
        /\ May(NoCat)
        /\ Call("drawArrays", NoCat, drawArrays(BA(rc, f)))

DrawElementsFailing ==
    \E f \in ApplyFaults :
        /\ May(NoCat)
        /\ Call("drawElements", NoCat, drawElements(BA(rc, f)))

DispatchComputeFailing ==
    \E f \in ApplyFaults :
        /\ May(NoCat)
        /\ Call("dispatchCompute", NoCat, dispatchCompute(BA(rc, f)))

\* The scoped setters and the other calls that issue no draw, clear or dispatch.
StackCalls ==
    \/ SetState \/ PushState \/ PushAndSetState \/ PopState
    \/ SetShader \/ PushShader \/ PushAndSetShader \/ PopShader
    \/ SetViewport \/ PushViewport \/ PushAndSetViewport \/ PopViewport
    \/ SetPointParameters \/ PushPointParameters \/ PushAndSetPointParameters
    \/ PopPointParameters
    \/ SetMatrix_cameraToClipping \/ PushMatrix_cameraToClipping
    \/ PushAndSetMatrix_cameraToClipping \/ PopMatrix_cameraToClipping
    \/ SetMatrix_modelToCamera \/ ResetMatrix \/ MultMatrix_modelToCamera
    \/ PushMatrix_modelToCamera \/ PushAndSetMatrix_modelToCamera
    \/ PopMatrix_modelToCamera
    \/ SetMaterial \/ PushMaterial \/ PushAndSetMaterial \/ PopMaterial
    \/ SetTexture \/ PushTexture \/ PushAndSetTexture \/ PopTexture \/ DataChanged
    \/ SetBoundImage \/ PushBoundImage \/ PushAndSetBoundImage \/ PopBoundImage
    \/ SetTransformFeedbackBuffer \/ StartTransformFeedback \/ StopTransformFeedback
    \/ PushTransformFeedbackBufferStatus \/ PopTransformFeedbackBufferStatus

\* The setters without a stack, and the calls that set the target snapshot.
PlainSetCalls ==
    \/ SetState \/ SetShader \/ SetViewport \/ SetTexture
    \/ SetMatrix_cameraToWorld \/ SetVertexFormat \/ BindVertexBuffer \/ BindIndexBuffer
    \/ Allocate

LightCalls ==
    \/ RegisterLight \/ SetLight \/ UnregisterLight
    \/ EnableLight \/ EnableLightNumber \/ DisableLight

DeviceCalls ==
    \/ ApplyChanges \/ Flush \/ Finish \/ Barrier
    \/ ClearScreen \/ ClearScreenRect \/ ClearColor \/ ClearDepth \/ ClearStencil
    \/ DispatchCompute \/ DispatchComputeIndirect \/ LoadUniformSubroutines
    \/ DrawArrays \/ DrawElements \/ DrawArray

Next == StackCalls \/ PlainSetCalls \/ LightCalls \/ DeviceCalls

Spec == Init /\ [][Next]_vars

NextApply == PlainSetCalls \/ DeviceCalls

SpecApply == InitApply /\ [][NextApply]_vars

FaultCalls ==
    \/ ApplyChangesFailing
    \/ FlushFailing
    \/ ClearScreenFailing
    \/ DrawArraysFailing
    \/ DrawElementsFailing
    \/ DispatchComputeFailing

NextFault == PlainSetCalls \/ FaultCalls

SpecFault == InitFault /\ [][NextFault]_vars

NextDraw == DrawArrays \/ DrawElements \/ DrawArraysFailing \/ DrawElementsFailing

SpecDraw == InitDraw /\ [][NextDraw]_vars

NextMesh ==
    \/ Allocate \/ AllocateIndices
    \/ MarkAsChanged \/ MarkAsChangedIndices
    \/ Prepare \/ DoDisplayMesh

SpecMesh == InitMesh /\ [][NextMesh]_vars

NextRecord ==
    \/ Allocate \/ Fill \/ MarkAsChanged
    \/ Upload \/ Download \/ RemoveGlBuffer \/ ReleaseLocalData
    \/ AllocateIndices \/ UploadIndices \/ ReleaseLocalDataIndices
    \/ AssureLocalVertexData \/ AssureLocalIndexData
    \/ Prepare

SpecRecord == InitRecord /\ [][NextRecord]_vars

NextBox == UpdateBoundingBox

SpecBox == InitBox /\ [][NextBox]_vars

NextImage ==
    \/ GetBoundImage \/ SetBoundImage \/ PushBoundImage
    \/ PushAndSetBoundImage \/ PopBoundImage

SpecImage == InitImage /\ [][NextImage]_vars

\* The application binds textures and works on the texture objects.
NextTexture ==
    \/ SetTexture \/ PushTexture \/ PushAndSetTexture \/ PopTexture \/ DataChanged
    \/ CreateGLID \/ CreateMipmaps \/ UploadGLTexture \/ DownloadGLTexture

SpecTexture == InitTexture /\ [][NextTexture]_vars

NextLight == LightCalls

SpecLight == InitLight /\ [][NextLight]_vars

NextFocus == StackCalls

SpecFocus == InitFocus /\ [][NextFocus]_vars

\* ------------------------------------------------------------- properties
\* The device commands that depend on the target snapshot.
DeviceCommands ==
    {"glFlush", "glFinish", "glMemoryBarrier", "glClear", "glDispatchCompute",
     "glDispatchComputeIndirect", "glDrawArraysInstancedBaseInstance",
     "glDrawElementsInstancedBaseVertexBaseInstance", "glDrawArrays"}

\* The calls that are documented to apply the changes.
DeviceOps ==
    {"applyChanges", "flush", "finish", "barrier", "clearScreen", "clearScreenRect",
     "clearColor", "clearDepth", "clearStencil", "dispatchCompute",
     "dispatchComputeIndirect", "loadUniformSubroutines", "drawArrays", "drawElements",
     "drawArray"}

\* push, set, pushAndSet and pop of a category; the other setters of a category.
ScopedOps == {"push", "set", "pushAndSet", "pop"}
SetterOps == ScopedOps \cup {"reset", "mult", "start", "stop"}

\* The categories whose getter reads the target snapshot.
SnapshotCats == PlainCats \cup {"shader", "viewport", "texture"}

\* The categories C2 lists.
RoundTripCats ==
    PlainCats \cup {"viewport", "texture", "image", "point", "modelToCamera",
                    "cameraToClipping"}

IsDeviceCommand(e) == e.k = "gl" /\ e.c \in DeviceCommands

\* C1: every device draw, dispatch, flush, finish, barrier or clear command of a
\* call comes after a completed applyChanges of the same call, with no mutation
\* of the target snapshot between that applyChanges and the command.
C1_ApplyBeforeDeviceCommand ==
    \A i \in 1..Len(rc.journal) :
        IsDeviceCommand(rc.journal[i]) =>
            \E j \in 1..(i - 1) :
                /\ rc.journal[j].k = "applied"
                /\ \A m \in (j + 1)..(i - 1) : rc.journal[m].k # "target"

\* MeshVertexData::drawArray has set the vertex format and the buffer binding,
\* applied the changes and drawn.
C1_Witness ==
    /\ last.op = "drawArray"
    /\ \E i \in 1..Len(rc.journal) : rc.journal[i] = Ev("gl", "glDrawArrays", 0)
    /\ \E i \in 1..Len(rc.journal) : rc.journal[i] = Ev("target", "vertexFormat", 0)
    /\ rc.vd.vertexCount > 0

C3_PopOnEmptyStack ==
    [][(last'.op = "pop" /\ last'.cat \in AllCats /\ rc.stacks[last'.cat] = <<>>) =>
           rc' = Warn(B(rc), "emptyStack")]_vars

\* A pop found the stack empty after a push and a pop.
C3_Witness ==
    /\ last.op = "pop" /\ last.cat \in AllCats /\ last.depth = 0
    /\ calls >= 3
    /\ rc.journal = << Ev("warn", "emptyStack", 0) >>

\* C4: popShader restores the shader that was the target right before the
\* matching push and removes the entry, so that the stack has the depth it had
\* before that push.
C4_PopShaderRemovesEntry ==
    (last.op = "pop" /\ last.matched /\ last.cat = Cat("shader", 0)) =>
        /\ getActiveShader(rc) = last.exp.val
        /\ Depth(rc, last.cat) = last.exp.depth

\* C5: popMaterial restores the material record (parameters and enabled flag)
\* that was active right before the matching push.
C5_MaterialRoundTrip ==
    (last.op = "pop" /\ last.matched /\ last.cat = Cat("material", 0)) =>
        rc.activeMaterial = last.exp.val

C8_SettersIssueNoDeviceCommand ==
    (last.op \in ScopedOps) => \A i \in 1..Len(rc.journal) : rc.journal[i].k # "gl"

\* C9: when applyChanges returns, the active snapshot equals the target
\* snapshot; a setter called after it changes the target and leaves the active
\* snapshot as it was applied.
C9_ActiveEqualsTargetAfterApply ==
    /\ [](last.op = "applyChanges" => rc.activePipelineState = rc.targetPipelineState)
    /\ [][(last'.op \notin DeviceOps) =>
              rc'.activePipelineState = rc.activePipelineState]_vars

\* A setter changed the target after an applyChanges: the two snapshots differ
\* and the active one holds what was applied.
C9_Witness ==
    /\ last.op = "set" /\ calls >= 2
    /\ rc.activePipelineState # rc.targetPipelineState
    /\ rc.activePipelineState.state["cullFace"] = 1

\* The categories in which the target snapshot differs from the active one.
Differing(s) ==
    {Ev("state", c, 0) :
        c \in {x \in StateCats :
                  s.activePipelineState.state[x] # s.targetPipelineState.state[x]}}
        \cup {Ev("state", "texture", u) :
                 u \in {x \in TextureUnits :
                           s.activePipelineState.textures[x] # s.targetPipelineState.textures[x]}}

Everything ==
    {Ev("state", c, 0) : c \in StateCats} \cup {Ev("state", "texture", u) : u \in TextureUnits}

StateChanges(journal) == SelectSeq(journal, LAMBDA e : e.k = "state")

\* C10: applyChanges(false) issues exactly one state-change operation for each
\* category in which the target differs from the active snapshot and none for
\* the others (none at all when the two are equal); applyChanges(true) issues
\* one for every category.
C10_StateChangeOperations ==
    [][(last'.op = "applyChanges") =>
           /\ Len(StateChanges(rc'.journal)) =
                  Cardinality(IF last'.arg = 1 THEN Everything ELSE Differing(rc))
           /\ {StateChanges(rc'.journal)[i] : i \in 1..Len(StateChanges(rc'.journal))} =
                  (IF last'.arg = 1 THEN Everything ELSE Differing(rc))]_vars

\* An applyChanges(false) after a first one and one setter issued one
\* state-change operation.
C10_Witness ==
    /\ last.op = "applyChanges" /\ last.arg = 0 /\ calls >= 3
    /\ Len(StateChanges(rc.journal)) = 1
    /\ rc.activePipelineState.state["cullFace"] = 1

\* The calls that run applyChanges and the device command each of them ends with.
FinalCommand ==
    [flush |-> "glFlush", clearScreen |-> "glClear",
     drawArrays |-> "glDrawArraysInstancedBaseInstance",
     drawElements |-> "glDrawElementsInstancedBaseVertexBaseInstance",
     dispatchCompute |-> "glDispatchCompute"]

Warned(s, what) == \E i \in 1..Len(s.journal) : s.journal[i] = Ev("warn", what, 0)

Applied(s) == \E i \in 1..Len(s.journal) : s.journal[i].k = "applied"

\* Whether the nested operation f is reached by an applyChanges(forced) on s.
Strikes(s, f, forced) ==
    \/ f.k = "cache"
    \/ f.k = "state" /\ (forced \/ f \in Differing(s))
    \/ f.k = "uniforms" /\ s.targetPipelineState.state["shader"] # 0

Active(s) == {s.activeLightSet.lights[i] : i \in 1..s.activeLightSet.count}

Occurrences(s, id) ==
    Cardinality({i \in 1..s.activeLightSet.count : s.activeLightSet.lights[i] = id})

Registered(s, light) == s.lightRegistry[light] # NotRegistered

\* Everything of the context but the journal, the return value and the error.
SameContext(s, t) ==
    [s EXCEPT !.journal = <<>>, !.ret = 0, !.thrown = "none"]
        = [t EXCEPT !.journal = <<>>, !.ret = 0, !.thrown = "none"]

\* C12: enableLight(d) returns the id that lightRegistry holds for d, and an
\* entry of lightRegistry, once written, is never changed or removed by any
\* light operation (unregisterLight included): a second enableLight(d) returns
\* the id of the first, takes no id from the free pool and writes no light
\* data.  After the call the id is in the active light set exactly once,
\* unless the set was full without it: then the id is not in the set.
C12_EnableLightTwice ==
    [][/\ \A l \in Lights : Registered(rc, l) => rc'.lightRegistry[l] = rc.lightRegistry[l]
       /\ (last'.op # "enableLight") => rc'.lightRegistry = rc.lightRegistry
       /\ (last'.op = "enableLight") =>
              /\ rc'.ret = rc'.lightRegistry[last'.arg]
              /\ Registered(rc, last'.arg) =>
                     /\ rc'.freeLightIds = rc.freeLightIds
                     /\ rc'.cache = rc.cache
              /\ Occurrences(rc', rc'.ret) =
                     IF rc'.ret \notin Active(rc)
                        /\ rc.activeLightSet.count >= MaxEnabledLights
                     THEN 0 ELSE 1]_vars

\* The second enableLight(1) of a run enableLight(1); enableLight(1).
C12_Witness ==
    /\ calls = 2
    /\ last.op = "enableLight" /\ last.arg = 1
    /\ rc.ret = 0 /\ rc.lightRegistry[1] = 0
    /\ rc.lightRegistry[2] = NotRegistered
    /\ rc.freeLightIds = (0..MaxLightId) \ {0}
    /\ Occurrences(rc, 0) = 1

\* The statement as worded: after a second enableLight(d) the id is in the
\* active light set exactly once.
C12_SecondEnableLeavesIdActiveOnce ==
    [][(last'.op = "enableLight" /\ Registered(rc, last'.arg)) =>
           /\ rc'.ret = rc.lightRegistry[last'.arg]
           /\ rc'.lightRegistry = rc.lightRegistry
           /\ Occurrences(rc', rc'.ret) = 1]_vars

\* C13: registerLight on an empty free pool returns InvalidLightId (255 in the
\* source), reports a warning and changes nothing else: no light-data slot is
\* written, the pool stays empty, lightRegistry and the stored light data are
\* as before.
C13_RegisterLightOnEmptyPool ==
    [][(last'.op = "registerLight" /\ rc.freeLightIds = {}) =>
           /\ rc'.ret = InvalidLightId
           /\ Ok(rc') /\ Warned(rc', "cannotRegisterLight")
           /\ rc'.freeLightIds = {}
           /\ rc'.cache = rc.cache
           /\ SameContext(rc', rc)]_vars

\* Every id 0..MaxLightId holds a registered descriptor, two of them distinct,
\* and a further registerLight failed.
C13_Witness ==
    /\ last.op = "registerLight"
    /\ rc.ret = InvalidLightId /\ Warned(rc, "cannotRegisterLight")
    /\ rc.freeLightIds = {}
    /\ \A i \in 0..MaxLightId : rc.cache["LightData"][i] \in Lights
    /\ rc.cache["LightData"][0] # rc.cache["LightData"][1]
    /\ rc.cache["LightData"][InvalidLightId] = 0

\* C14: enableLight(d) of a descriptor that is not registered, on an empty
\* free pool, leaves lightRegistry, the free pool and the active light set as
\* they were, and InvalidLightId is never in lightRegistry or in the active
\* light set.
C14_EnableLightOnEmptyPoolIsNoOp ==
    [][(/\ last'.op = "enableLight"
        /\ rc.freeLightIds = {}
        /\ ~Registered(rc, last'.arg)
        /\ InvalidLightId \notin Active(rc)
        /\ \A l \in Lights : rc.lightRegistry[l] # InvalidLightId) =>
           /\ rc'.lightRegistry = rc.lightRegistry
           /\ rc'.freeLightIds = rc.freeLightIds
           /\ rc'.activeLightSet = rc.activeLightSet
           /\ InvalidLightId \notin Active(rc')
           /\ \A l \in Lights : rc'.lightRegistry[l] # InvalidLightId]_vars

\* C15: the active light set never holds more than MaxEnabledLights ids
\* (MAX_ENABLED_LIGHTS = 8 in the source) and no id twice.  enableLight(n) of an
\* active id changes nothing; enableLight(n) of an id that is not active, with
\* the set full, changes nothing and reports a warning; enableLight(d) in
\* either case leaves the active light set as it was.
C15_ActiveLightSetBounded ==
    /\ [](/\ rc.activeLightSet.count \in 0..MaxEnabledLights
          /\ \A id \in Active(rc) : Occurrences(rc, id) = 1)
    /\ [][/\ (last'.op = "enableLightNumber" /\ last'.arg \in Active(rc)) =>
                 /\ SameContext(rc', rc)
                 /\ rc'.journal = <<>>
          /\ (/\ last'.op = "enableLightNumber"
              /\ last'.arg \notin Active(rc)
              /\ rc.activeLightSet.count = MaxEnabledLights) =>
                 /\ SameContext(rc', rc)
                 /\ rc'.journal = <<Ev("warn", "cannotEnableLight", 0)>>
          /\ (/\ last'.op = "enableLight"
              /\ \/ rc'.ret \in Active(rc)
                 \/ rc.activeLightSet.count = MaxEnabledLights) =>
                 rc'.activeLightSet = rc.activeLightSet]_vars

\* enableLight(n) of an id that is not active was refused on a full set.
C15_Witness ==
    /\ last.op = "enableLightNumber"
    /\ Warned(rc, "cannotEnableLight")
    /\ rc.activeLightSet.count = MaxEnabledLights
    /\ last.arg \notin Active(rc)
    /\ Cardinality(Active(rc)) = MaxEnabledLights

\* C16: disableLight(n) of an active id takes n out of the active light set:
\* count decreases by one, the former last entry takes the position of n,
\* the other entries keep their positions; the free pool, lightRegistry and the
\* rest of the context are unchanged.  disableLight(n) of an id that is not
\* active changes nothing.
C16_DisableLightSwapsWithLast ==
    [][(last'.op = "disableLight") =>
           LET n == last'.arg
               old == rc.activeLightSet
               new == rc'.activeLightSet
           IN  IF n \in Active(rc)
               THEN /\ new.count = old.count - 1
                    /\ \E pos \in 1..old.count :
                           /\ old.lights[pos] = n
                           /\ pos <= new.count => new.lights[pos] = old.lights[old.count]
                           /\ \A i \in (1..new.count) \ {pos} : new.lights[i] = old.lights[i]
                    /\ Active(rc') = Active(rc) \ {n}
                    /\ rc'.freeLightIds = rc.freeLightIds
                    /\ rc'.lightRegistry = rc.lightRegistry
                    /\ SameContext([rc' EXCEPT !.activeLightSet = old], rc)
                    /\ rc'.journal = <<>>
               ELSE /\ SameContext(rc', rc)
                    /\ rc'.journal = <<>>]_vars

\* enableLight(1); enableLight(2); disableLight(0): the last entry, id 1, has
\* taken the first position.
C16_Witness ==
    /\ calls = 3
    /\ last.op = "disableLight" /\ last.arg = 0
    /\ rc.lightRegistry[1] = 0 /\ rc.lightRegistry[2] = 1
    /\ rc.activeLightSet.count = 1
    /\ rc.activeLightSet.lights[1] = 1
    /\ rc.freeLightIds = (0..MaxLightId) \ {0, 1}

\* C17: registerLight on a free pool that is not empty returns the lowest id
\* of the pool, removes it from the pool and stores the descriptor in the
\* light-data slot of that id, and in no other slot.  The id is within
\* 0..MaxLightId (0..254 in the source) unless InvalidLightId is in the pool,
\* and InvalidLightId enters the pool only by unregisterLight(InvalidLightId):
\* registerLight never hands out InvalidLightId as the id of a light.
C17_RegisterLightLowestFreeId ==
    [][/\ (last'.op = "registerLight" /\ rc.freeLightIds # {}) =>
              /\ rc'.ret \in rc.freeLightIds
              /\ \A n \in rc.freeLightIds : rc'.ret <= n
              /\ rc'.freeLightIds = rc.freeLightIds \ {rc'.ret}
              /\ rc'.cache["LightData"] =
                     [rc.cache["LightData"] EXCEPT ![rc'.ret] = last'.arg]
              /\ InvalidLightId \notin rc.freeLightIds => rc'.ret \in 0..MaxLightId
       /\ (InvalidLightId \in rc'.freeLightIds /\ InvalidLightId \notin rc.freeLightIds) =>
              /\ last'.op = "unregisterLight"
              /\ last'.arg = InvalidLightId]_vars

\* registerLight; unregisterLight(0); registerLight: from the pool of all ids
\* the lowest one is handed out again.
C17_Witness ==
    /\ calls >= 3
    /\ last.op = "registerLight"
    /\ rc.ret = 0
    /\ rc.freeLightIds = (0..MaxLightId) \ {0}
    /\ rc.freeLightIds # {}
    /\ rc.cache["LightData"][0] = last.arg

\* C18: unregisterLight(n) adds n to the free pool and changes nothing else:
\* the active light set, lightRegistry and the light data are as before; when
\* n is in the pool already the pool is unchanged.
C18_UnregisterLightOnlyFrees ==
    [][(last'.op = "unregisterLight") =>
           /\ rc'.freeLightIds = rc.freeLightIds \cup {last'.arg}
           /\ rc'.activeLightSet = rc.activeLightSet
           /\ SameContext([rc' EXCEPT !.freeLightIds = rc.freeLightIds], rc)
           /\ rc'.journal = <<>>
           /\ last'.arg \in rc.freeLightIds => rc'.freeLightIds = rc.freeLightIds]_vars

\* The id of an enabled light was unregistered: it is free and still active.
C18_Witness ==
    /\ last.op = "unregisterLight"
    /\ last.arg \in Active(rc)
    /\ last.arg \in rc.freeLightIds
    /\ \E l \in Lights : rc.lightRegistry[l] = last.arg

\* ---------------------------------------------------------------------------
\* Object data

DrawCommands ==
    {"glDrawArraysInstancedBaseInstance", "glDrawElementsInstancedBaseVertexBaseInstance"}

\* The positions of the draw commands in the journal of a call.
Draws(s) == {i \in 1..Len(s.journal) : s.journal[i].k = "gl" /\ s.journal[i].c \in DrawCommands}

\* C19: in a run of drawArrays and drawElements calls the object-data cursor
\* stays within 0..MAX_OBJECTDATA - 1.  Each call appends one record (the
\* cursor advances by one position), issues one draw command, and the draw id
\* of that command is the index of the record: the number of earlier calls
\* modulo MAX_OBJECTDATA.  The buffer is swapped, and the cursor set back to 0,
\* exactly in the call whose draw id is MAX_OBJECTDATA - 1.
C19_DrawIdsRunThroughTheRing ==
    /\ [](/\ rc.objectCursor \in 0..(MAX_OBJECTDATA - 1)
          /\ rc.objectCursor = calls % MAX_OBJECTDATA
          /\ rc.objectBuffer = (calls \div MAX_OBJECTDATA) % 2)
    /\ [][(last'.op \in {"drawArrays", "drawElements"}) =>
              /\ Cardinality(Draws(rc')) = 1
              /\ \A i \in Draws(rc') :
                     /\ rc'.journal[i].c = FinalCommand[last'.op]
                     /\ rc'.journal[i].u = rc.objectCursor
                     /\ rc'.journal[i].u = calls % MAX_OBJECTDATA
                     /\ rc'.journal[i].u \in 0..(MAX_OBJECTDATA - 1)
              /\ rc'.objectCursor =
                     IF rc.objectCursor = MAX_OBJECTDATA - 1 THEN 0 ELSE rc.objectCursor + 1
              /\ rc'.objectBuffer =
                     IF rc.objectCursor = MAX_OBJECTDATA - 1
                     THEN 1 - rc.objectBuffer ELSE rc.objectBuffer]_vars

\* The call after the one with draw id MAX_OBJECTDATA - 1: it drew with id 0
\* from the second buffer.
C19_Witness ==
    /\ calls = MAX_OBJECTDATA + 1
    /\ last.op = "drawElements"
    /\ rc.objectBuffer = 1
    /\ rc.objectCursor = 1
    /\ \E i \in Draws(rc) : rc.journal[i].u = 0

\* ---------------------------------------------------------------------------
\* Mesh data

Printed(s, text) == \E i \in 1..Len(s.journal) : s.journal[i] = Ev("out", text, 0)

\* C20: after prepare, with any flags of the strategy and whether or not an
\* upload fails, vertex data with vertexCount = 0 is not uploaded and index
\* data with indexCount = 0 is not uploaded, also when a device buffer existed
\* before the call; prepare does not change the counts.
C20_EmptyDataNotUploadedAfterPrepare ==
    [][(last'.op = "prepare") =>
           /\ rc'.vd.vertexCount = rc.vd.vertexCount
           /\ rc'.id.indexCount = rc.id.indexCount
           /\ rc'.vd.vertexCount = 0 => ~isUploaded(rc')
           /\ rc'.id.indexCount = 0 => ~isUploadedIndices(rc')
           /\ (rc.vd.vertexCount = 0 /\ isUploaded(rc)) => rc'.vd.bufferObject = NoBuffer
           /\ (rc.id.indexCount = 0 /\ isUploadedIndices(rc)) => rc'.id.bufferObject = NoBuffer]_vars

\* A prepare with DEBUG_OUTPUT found the device buffers of vertex data and of
\* index data that had been emptied after an upload, and removed both.
C20_Witness ==
    /\ last.op = "prepare"
    /\ Printed(rc, "~vBO") /\ Printed(rc, "~idxBO")
    /\ rc.vd.vertexCount = 0 /\ ~isUploaded(rc)
    /\ rc.id.indexCount = 0 /\ ~isUploadedIndices(rc)

\* The device commands and warnings of a call that tell an upload of vertex
\* data, or of index data, reached the device.
UploadedVertices(s) ==
    \E i \in 1..Len(s.journal) : s.journal[i] = Ev("gl", "glBufferData", ArrayBuffer)

UploadedIndices(s) ==
    \E i \in 1..Len(s.journal) : s.journal[i] = Ev("gl", "glBufferData", ElementArrayBuffer)

\* An upload was sent to the device, with or without success (f is the
\* operation that fails in the call).
SentVertices(s, f) ==
    UploadedVertices(s) \/ (f = Ev("uploadData", "", 0) /\ Warned(s, "uploadFailed"))

SentIndices(s, f) ==
    UploadedIndices(s) \/ (f = Ev("uploadIndexData", "", 0) /\ Warned(s, "uploadFailed"))

C22_PrepareReleasesLocalData ==
    [][(last'.op = "prepare") =>
           /\ "PRESERVE_LOCAL_DATA" \in last'.arg =>
                  /\ rc'.vd.binaryData = rc.vd.binaryData
                  /\ rc'.id.indexArray = rc.id.indexArray
           /\ rc'.vd.binaryData # rc.vd.binaryData =>
                  /\ "PRESERVE_LOCAL_DATA" \notin last'.arg
                  /\ rc'.vd.binaryData = <<>>
                  /\ isUploaded(rc')
           /\ rc'.id.indexArray # rc.id.indexArray =>
                  /\ "PRESERVE_LOCAL_DATA" \notin last'.arg
                  /\ rc'.id.indexArray = <<>>
                  /\ isUploadedIndices(rc')
           /\ ("PRESERVE_LOCAL_DATA" \notin last'.arg /\ isUploaded(rc')) =>
                  rc'.vd.binaryData = <<>>
           /\ ("PRESERVE_LOCAL_DATA" \notin last'.arg /\ isUploadedIndices(rc')) =>
                  rc'.id.indexArray = <<>>]_vars

\* A prepare without PRESERVE_LOCAL_DATA uploaded both records and released
\* their local data.
C22_Witness ==
    /\ last.op = "prepare"
    /\ last.arg = {"DEBUG_OUTPUT"}
    /\ Printed(rc, "~vLD") /\ Printed(rc, "~idxLD")
    /\ UploadedVertices(rc) /\ UploadedIndices(rc)
    /\ rc.vd.binaryData = <<>> /\ rc.id.indexArray = <<>>

\* A record that is not empty and has neither local data nor a device copy
\* that is current.
Lost(s) ==
    /\ s.vd.vertexCount # 0
    /\ getVertexSize(s.vd.vertexDescription) # 0
    /\ s.vd.binaryData = <<>>
    /\ ~(isUploaded(s) /\ ~s.vd.dataChanged)

\* C23: releaseLocalData called on a record that is not uploaded, or that has
\* changed since its upload, leaves the local data in place; no sequence of
\* allocate, markAsChanged, upload, removeGlBuffer and releaseLocalData leaves
\* a record that is not empty without local data and without a current device
\* copy.
C23_ReleaseOnlyWhenDeviceCopyCurrent ==
    /\ [][(last'.op = "releaseLocalData" /\ ~(isUploaded(rc) /\ ~rc.vd.dataChanged)) =>
              rc'.vd.binaryData = rc.vd.binaryData]_vars
    /\ []((last.op \in {"allocate", "markAsChanged", "upload", "removeGlBuffer",
                        "releaseLocalData"}) => ~Lost(rc))

\* C24: when upload succeeded and only releaseLocalData was called since,
\* download gives the record the local bytes it had before the upload, and they
\* are not empty.
C24_UploadDownloadRoundTrip ==
    [][(last'.op = "download" /\ last.up.ok) =>
           /\ rc'.vd.binaryData = last.up.bytes
           /\ rc'.vd.binaryData # <<>>
           /\ rc'.vd.vertexCount = rc.vd.vertexCount
           /\ rc'.vd.vertexDescription = rc.vd.vertexDescription]_vars

\* allocate; fill with bytes that are not all zero; upload; releaseLocalData;
\* download: the bytes are back.
C24_Witness ==
    /\ last.op = "download"
    /\ calls = 5
    /\ isUploaded(rc)
    /\ rc.vd.binaryData = rc.vd.bufferObject.data
    /\ \E i \in 1..Len(rc.vd.binaryData) : rc.vd.binaryData[i] # 0
    /\ ~rc.vd.dataChanged

\* C25: doDisplayMesh uploads a record that has local data and is not
\* uploaded, or is uploaded and has changed, before it binds and draws; after
\* the call no record that was drawn is uploaded and changed.
C25_DisplayNeverDrawsStaleBuffer ==
    [][(last'.op = "doDisplayMesh") =>
           /\ (/\ rc.vd.vertexCount # 0 /\ rc.vd.binaryData # <<>>
               /\ ~isUploaded(rc) \/ rc.vd.dataChanged) => UploadedVertices(rc')
           /\ ~(isUploaded(rc') /\ rc'.vd.dataChanged /\ rc'.vd.binaryData # <<>>)
           /\ (/\ last'.arg = 1
               /\ rc.id.indexCount # 0 /\ rc.id.indexArray # <<>>
               /\ ~isUploadedIndices(rc) \/ rc.id.dataChanged) => UploadedIndices(rc')]_vars

\* ---------------------------------------------------------------------------
\* Bound images and device features

\* C26: getBoundImage, pushBoundImage, setBoundImage, pushAndSetBoundImage and
\* popBoundImage with a unit above MaxImageUnit (unit >= MAX_BOUND_IMAGES)
\* throw a runtime_error and change nothing: the bound images, every stack and
\* the rest of the context are as before, and the call issues no device
\* command and no warning.
C26_InvalidImageUnitThrows ==
    [][(/\ last'.cat.c = "image"
        /\ last'.cat.u > MaxImageUnit
        /\ last'.op \in {"get", "push", "set", "pushAndSet", "pop"}) =>
           /\ rc'.thrown = "runtime_error"
           /\ rc'.journal = <<>>
           /\ rc'.boundImages = rc.boundImages
           /\ rc'.stacks = rc.stacks
           /\ SameContext(rc', rc)]_vars

\* pushAndSetBoundImage with an invalid unit threw, in a context that has an
\* image bound and a pushed entry.
C26_Witness ==
    /\ last.op = "pushAndSet"
    /\ last.cat = Cat("image", MaxImageUnit + 1)
    /\ rc.thrown = "runtime_error"
    /\ \E u \in ImageUnits : rc.boundImages[u] # 0
    /\ \E u \in ImageUnits : rc.stacks[Cat("image", u)] # <<>>

\* C27: an operation that needs a device feature the device lacks
\* (setBoundImage without image load/store; setTransformFeedbackBuffer,
\* startTransformFeedback and stopTransformFeedback without transform
\* feedback) leaves the tracked state as it was (the bound images; the active
\* feedback buffer and mode) and warns only the first time the lack is found.
C27_UnsupportedFeatureIsNoOp ==
    [][/\ (/\ last'.op = "set"
           /\ last'.cat.c = "image"
           /\ last'.cat.u <= MaxImageUnit
           /\ rc'.env.imageBinding = "no") =>
              /\ rc'.boundImages = rc.boundImages
              /\ rc.env.imageBinding = "no" => ~Warned(rc', "imageBindingNotSupported")
       /\ (/\ last'.op \in {"set", "start", "stop"}
           /\ last'.cat.c = "feedback"
           /\ rc'.env.transformFeedback = "no") =>
              /\ rc'.activeFeedbackStatus = rc.activeFeedbackStatus
              /\ rc.env.transformFeedback = "no" => ~Warned(rc', "transformFeedbackNotSupported")]_vars

\* ---------------------------------------------------------------------------
\* Drawing a range of a vertex record

\* C28: MeshVertexData::drawArray throws out_of_range, before it binds,
\* applies or draws, for all unsigned startIndex and numberOfElements of the
\* width whose true sum exceeds the vertex count, also when the sum wraps.
C28_DrawArrayRejectsEveryExcessRange ==
    [][\A first, n \in 0..(UIntModulus - 1) :
           (/\ last'.op = "drawArray"
            /\ last'.arg = first * UIntModulus + n
            /\ first + n > rc.vd.vertexCount) =>
               /\ rc'.thrown = "out_of_range"
               /\ rc'.journal = <<>>]_vars

\* ---------------------------------------------------------------------------
\* The bounding box of a vertex record

\* The least and the greatest value of dimension dim over the vertices.
LeastOfDim(values, dim) ==
    CHOOSE m \in {values[i][dim] : i \in DOMAIN values} :
        \A i \in DOMAIN values : m <= values[i][dim]

GreatestOfDim(values, dim) ==
    CHOOSE m \in {values[i][dim] : i \in DOMAIN values} :
        \A i \in DOMAIN values : m >= values[i][dim]

SlotsHold(t, s) ==
    /\ t.cache["FrameData"][0] = s.activeFrameData
    /\ t.cache["MaterialData"][0] = s.activeMaterial
    /\ t.cache["LightSetData"][0] = s.activeLightSet
    /\ t.cache["TextureSetData"][0] = s.enabledTextures

Bindable(sh) ==
    {b \in {InterfaceBlocks(sh)[i] : i \in 1..Len(InterfaceBlocks(sh))} :
        b.location >= 0 /\ b.name \in CacheNames}

\* C31: in a call that applies the changes, blocks are bound and uniforms are
\* synchronised only with a shader in the active snapshot, and only after the
\* state changes of the diff and the four slot writes: every bind is that of a
\* declared block with location >= 0 whose name is a slot, at its location;
\* unless an earlier step failed, each such block is bound and the uniforms
\* are synchronised after the last bind; a failing slot write leaves nothing
\* bound; without a shader nothing is bound or synchronised.
C31_BlocksBoundAfterDiffAndSlots ==
    [][Applied(rc') =>
           LET sh == rc.targetPipelineState.state["shader"]
               j == rc'.journal
               Binds == {i \in 1..Len(j) : j[i].k = "bind"}
               Syncs == {i \in 1..Len(j) : j[i].k = "uniforms"}
               States == {i \in 1..Len(j) : j[i].k = "state"}
           IN  /\ sh = 0 => Binds = {} /\ Syncs = {}
               /\ \A i \in Binds :
                      \E b \in Bindable(sh) : j[i] = Ev("bind", b.name, b.location)
               /\ \A i \in States : \A k \in Binds \cup Syncs : i < k
               /\ \A i \in Binds : \A k \in Syncs : i < k
               /\ last'.fault.k = "cache" => Binds = {} /\ Syncs = {}
               /\ (sh # 0 /\ ~Warned(rc', "applyProblem")) =>
                      /\ \A b \in Bindable(sh) :
                             \E i \in Binds : j[i] = Ev("bind", b.name, b.location)
                      /\ Cardinality(Syncs) = 1]_vars

\* An applyChanges with a shader whose state changes, binds of two blocks and
\* uniform synchronisation all happened.
C31_Witness ==
    /\ last.op = "applyChanges"
    /\ ~Warned(rc, "applyProblem")
    /\ \E i, k, l, m \in 1..Len(rc.journal) :
           /\ i < k /\ k < l /\ l < m
           /\ rc.journal[i].k = "state"
           /\ rc.journal[k] = Ev("bind", "FrameData", 0)
           /\ rc.journal[l] = Ev("bind", "ObjectData", 1)
           /\ rc.journal[m] = Ev("uniforms", "", 0)

\* ---------------------------------------------------------------------------
\* Vertex formats and the shader in use

\* The vertex formats of description vd resolved against shader sh.
ResolvedFormat(sh, vd) ==
    LET loc(i) == IF sh # 0 THEN getVertexAttributeLocation(sh, i) ELSE i - 1
    IN  [l \in Locations |->
            IF \E i \in 1..vd : loc(i) = l
            THEN AttributeNames[CHOOSE i \in 1..vd : loc(i) = l]
            ELSE "none"]

\* C32: at every draw the vertex formats of the snapshot that was applied are
\* those of a vertex description resolved against the shader of that
\* snapshot, also when the shader was changed after setVertexFormat.
C32_VertexFormatsMatchShaderAtDraw ==
    (last.op \in {"drawArrays", "drawElements"} /\ Applied(rc)) =>
        \E vd \in VertexDescriptions :
            rc.activePipelineState.state["vertexFormat"]
                = ResolvedFormat(rc.activePipelineState.state["shader"], vd)

\* ---------------------------------------------------------------------------
\* assureLocalVertexData and assureLocalIndexData

\* The local bytes are the first n bytes the device buffer holds.
FromDevice(local, bufferObject, n) ==
    /\ Len(local) = n
    /\ \A i \in 1..n : i <= Len(bufferObject.data) => local[i] = bufferObject.data[i]

\* C33: assureLocalVertexData and assureLocalIndexData change a record only
\* when it has no local bytes and a device buffer: then a record with a
\* count above 0 gets the content of the device buffer as its local bytes and
\* is no longer changed (and has local data if one element takes bytes), and
\* a record with count 0 stays as it is.  With local bytes present or without
\* a device buffer the call changes nothing.
C33_AssureLocalDownloadsWhenOnlyOnDevice ==
    [][/\ (last'.op = "assureLocalVertexData") =>
              /\ rc'.id = rc.id
              /\ SameContext([rc' EXCEPT !.vd = rc.vd], rc)
              /\ rc'.journal = <<>>
              /\ IF rc.vd.binaryData = <<>> /\ isUploaded(rc) /\ rc.vd.vertexCount > 0
                 THEN /\ FromDevice(rc'.vd.binaryData, rc.vd.bufferObject,
                                    getVertexSize(rc.vd.vertexDescription) * rc.vd.vertexCount)
                      /\ rc'.vd = [rc.vd EXCEPT !.binaryData = rc'.vd.binaryData,
                                                !.dataChanged = FALSE]
                      /\ getVertexSize(rc.vd.vertexDescription) > 0 => rc'.vd.binaryData # <<>>
                 ELSE rc'.vd = rc.vd
       /\ (last'.op = "assureLocalIndexData") =>
              /\ rc'.vd = rc.vd
              /\ SameContext([rc' EXCEPT !.id = rc.id], rc)
              /\ rc'.journal = <<>>
              /\ IF rc.id.indexArray = <<>> /\ isUploadedIndices(rc) /\ rc.id.indexCount > 0
                 THEN /\ FromDevice(rc'.id.indexArray, rc.id.bufferObject, rc.id.indexCount)
                      /\ rc'.id = [rc.id EXCEPT !.indexArray = rc'.id.indexArray,
                                                !.dataChanged = FALSE]
                      /\ rc'.id.indexArray # <<>>
                 ELSE rc'.id = rc.id]_vars

\* assureLocalVertexData brought back bytes other than zero that had been
\* uploaded and released.
C33_Witness ==
    /\ last.op = "assureLocalVertexData"
    /\ calls >= 5
    /\ isUploaded(rc)
    /\ rc.vd.binaryData = rc.vd.bufferObject.data
    /\ \E i \in 1..Len(rc.vd.binaryData) : rc.vd.binaryData[i] # 0

\* C33 as stated: after the call a record that had no local bytes and a
\* device buffer has local data.
C33_AssureLocalLeavesLocalData ==
    [][/\ (last'.op = "assureLocalVertexData" /\ rc.vd.binaryData = <<>> /\ isUploaded(rc)) =>
              rc'.vd.binaryData # <<>>
       /\ (last'.op = "assureLocalIndexData" /\ rc.id.indexArray = <<>>
               /\ isUploadedIndices(rc)) =>
              rc'.id.indexArray # <<>>]_vars

\* ---------------------------------------------------------------------------
\* Consistency of the light bookkeeping

\* C34: after any sequence of light calls no two descriptors of lightRegistry
\* have the same id, and no id of freeLightIds is the id of a descriptor of
\* lightRegistry or a member of the active light set.
C34_LightBookkeepingConsistent ==
    /\ \A l1, l2 \in Lights :
           (l1 # l2 /\ Registered(rc, l1) /\ Registered(rc, l2)) =>
               rc.lightRegistry[l1] # rc.lightRegistry[l2]
    /\ \A id \in rc.freeLightIds :
           /\ \A l \in Lights : rc.lightRegistry[l] # id
           /\ id \notin Active(rc)

\* ---------------------------------------------------------------------------
\* The inverse matrices of the frame record

HoldsInverses(s) ==
    /\ s.activeFrameData.matrix_clippingToCamera
           = Inverse(s.activeFrameData.matrix_cameraToClipping)
    /\ s.activeFrameData.matrix_worldToCamera
           = Inverse(s.activeFrameData.matrix_cameraToWorld)

\* C35: a set, push, pushAndSet or pop of matrix_cameraToClipping that starts
\* with a frame record holding the inverses (as it does after a
\* setMatrix_cameraToClipping and a setMatrix_cameraToWorld) ends with one:
\* matrix_clippingToCamera is the inverse of matrix_cameraToClipping, and
\* matrix_worldToCamera is the inverse of matrix_cameraToWorld.
C35_FrameRecordHoldsInverses ==
    [][(last'.cat = Cat("cameraToClipping", 0) /\ HoldsInverses(rc))
           => HoldsInverses(rc')]_vars

\* ---------------------------------------------------------------------------
\* An interrupted applyChanges

\* C36: when a state change of the diff failed in the previous call, so that
\* it and the state changes after it were not executed, a following
\* applyChanges(false) in which nothing fails issues the state change that
\* failed.
C36_InterruptedDiffIsAppliedLater ==
    [][(/\ last.fault.k = "state"
        /\ Warned(rc, "applyProblem")
        /\ last'.op = "applyChanges"
        /\ last'.arg = 0
        /\ ~Warned(rc', "applyProblem")) =>
           \E i \in 1..Len(rc'.journal) : rc'.journal[i] = last.fault]_vars

\* ---------------------------------------------------------------------------
\* A failed upload

\* C37: an upload on a record with vertexCount = 0 or without local bytes
\* returns false and changes nothing, an existing device buffer included; an
\* upload that fails returns false, leaves no device buffer, and leaves the
\* changed flag and the local bytes as they were.  After a prepare on a
\* record with vertexCount > 0 that had local bytes or a device buffer, the
\* record has local bytes or a device buffer.
C37_FailedUploadKeepsLocalData ==
    [][/\ (last'.op = "upload" /\ (rc.vd.vertexCount = 0 \/ rc.vd.binaryData = <<>>)) =>
              /\ rc'.ret = 0
              /\ rc'.vd = rc.vd
              /\ rc'.journal = <<>>
       /\ (/\ last'.op = "upload"
           /\ rc.vd.vertexCount # 0 /\ rc.vd.binaryData # <<>>
           /\ last'.fault = Ev("uploadData", "", 0)) =>
              /\ rc'.ret = 0
              /\ ~isUploaded(rc')
              /\ rc'.vd.dataChanged = rc.vd.dataChanged
              /\ rc'.vd.binaryData = rc.vd.binaryData
       /\ (/\ last'.op = "prepare"
           /\ rc.vd.vertexCount > 0
           /\ (rc.vd.binaryData # <<>> \/ isUploaded(rc))) =>
              (rc'.vd.binaryData # <<>> \/ isUploaded(rc'))]_vars

\* A prepare whose upload failed on a record that is marked as changed: the
\* record keeps its local bytes, other than zero, and has no device buffer.
C37_Witness ==
    /\ last.op = "prepare"
    /\ last.fault = Ev("uploadData", "", 0)
    /\ Warned(rc, "uploadFailed")
    /\ ~isUploaded(rc)
    /\ rc.vd.dataChanged
    /\ \E i \in 1..Len(rc.vd.binaryData) : rc.vd.binaryData[i] # 0

\* ---------------------------------------------------------------------------
\* download and changed local data

\* C38: download on a record that has local bytes and is marked as changed
\* leaves the local bytes and the changed flag as they are; download on a
\* record that is not uploaded or has vertexCount = 0 changes nothing.
C38_DownloadKeepsChangedLocalData ==
    [][(last'.op = "download") =>
           /\ (rc.vd.binaryData # <<>> /\ rc.vd.dataChanged) =>
                  /\ rc'.vd.binaryData = rc.vd.binaryData
                  /\ rc'.vd.dataChanged
           /\ (~isUploaded(rc) \/ rc.vd.vertexCount = 0) => rc'.vd = rc.vd]_vars

\* C39: after _createGLID, createMipmaps, _uploadGLTexture or downloadGLTexture,
\* whether the operation returned or threw, the target texture of unit 0 and
\* the depth of the texture stack of unit 0 are what they were at entry.
TextureOperations == {"_createGLID", "createMipmaps", "_uploadGLTexture", "downloadGLTexture"}

C39_TextureOperationsRestoreUnitZero ==
    (calls > 0 /\ last.op \in TextureOperations) =>
        /\ getTexture(rc, 0) = last.pre
        /\ Depth(rc, Cat("texture", 0)) = last.depth

\* C40: a popTransformFeedbackBufferStatus on a non-empty stack makes the saved
\* top entry (buffer and primitive mode) the active feedback status and removes
\* that entry from the stack, so that nested pairs restore in LIFO order and
\* the depth returns to what it was before the matching push.
C40_FeedbackPopRestoresAndRemoves ==
    [][(/\ last'.op = "pop"
        /\ last'.cat = Cat("feedback", 0)
        /\ rc.stacks[Cat("feedback", 0)] # <<>>) =>
           /\ rc'.activeFeedbackStatus = Top(rc.stacks[Cat("feedback", 0)])
           /\ rc'.stacks[Cat("feedback", 0)] = Pop(rc.stacks[Cat("feedback", 0)])]_vars

====
